---- MODULE Spec2Model ----
(***************************************************************************)
(* A model of the rule interpretation and matching engine of               *)
(* src/LLM_Rules_Engine.py: SemanticRuleParser (free text -> conditions    *)
(* and actions) and RuleEngine (context building, condition evaluation,    *)
(* confidence scoring, action rendering, ranking, truncation, caching).    *)
(*                                                                         *)
(* Python strings are sequences of one-character strings, so that          *)
(* substring tests, lower(), strip(), the regular expressions and          *)
(* str.format are computed character by character, as the code does.       *)
(* Confidences are exact rationals [num, den] (the weights are tenths).    *)
(***************************************************************************)
EXTENDS Integers, Sequences, FiniteSets, TLC

(***************************************************************************)
(* Bounds of the model.                                                    *)
(***************************************************************************)
MaxAppts == 3

MaxLimit == 2

MaxCalls == 2

(***************************************************************************)
(* Python str primitives.                                                  *)
(***************************************************************************)
UpperLetters ==
  <<"A","B","C","D","E","F","G","H","I","J","K","L","M","N","O","P","Q","R","S","T","U","V","W","X","Y","Z">>

LowerLetters ==
  <<"a","b","c","d","e","f","g","h","i","j","k","l","m","n","o","p","q","r","s","t","u","v","w","x","y","z">>

DigitChars ==
  <<"0","1","2","3","4","5","6","7","8","9">>

IsSpace(c) == c \in {" ", "\t", "\n", "\r"}

IsDigit(c) == \E i \in 1..10 : DigitChars[i] = c

DigitVal(c) == (CHOOSE i \in 1..10 : DigitChars[i] = c) - 1

IsLetter(c) == \E i \in 1..26 : UpperLetters[i] = c \/ LowerLetters[i] = c

LowerChar(c) ==
  IF \E i \in 1..26 : UpperLetters[i] = c
    THEN LowerLetters[CHOOSE i \in 1..26 : UpperLetters[i] = c]
    ELSE c

UpperChar(c) ==
  IF \E i \in 1..26 : LowerLetters[i] = c
    THEN UpperLetters[CHOOSE i \in 1..26 : LowerLetters[i] = c]
    ELSE c

\* str.lower()
Lower(s) == [i \in 1..Len(s) |-> LowerChar(s[i])]

\* str.title(): a letter is upper-cased after a non-letter, lower-cased after a letter
Title(s) ==
  [i \in 1..Len(s) |->
     IF i = 1 \/ ~IsLetter(s[i-1]) THEN UpperChar(s[i]) ELSE LowerChar(s[i])]

\* str.strip()
Strip(s) ==
  LET keep == {i \in 1..Len(s) : ~IsSpace(s[i])}
  IN  IF keep = {} THEN <<>>
      ELSE LET lo == CHOOSE i \in keep : \A j \in keep : i <= j
               hi == CHOOSE i \in keep : \A j \in keep : j <= i
           IN  SubSeq(s, lo, hi)

\* s[i:] starts with w
StartsAt(s, i, w) ==
  /\ i >= 1
  /\ i + Len(w) - 1 <= Len(s)
  /\ \A k \in 1..Len(w) : s[i + k - 1] = w[k]

\* w in s
Contains(s, w) == \E i \in 1..(Len(s) - Len(w) + 1) : StartsAt(s, i, w)

\* any(w in s for w in ws)
ContainsAny(s, ws) == \E k \in 1..Len(ws) : Contains(s, ws[k])

\* the length of the run of digits that starts at s[i]
RECURSIVE DigitRun(_, _)
DigitRun(s, i) ==
  IF i <= Len(s) /\ IsDigit(s[i]) THEN 1 + DigitRun(s, i + 1) ELSE 0

\* int(s) of a string of decimal digits
RECURSIVE IntOf(_)
IntOf(s) ==
  IF s = <<>> THEN 0
  ELSE 10 * IntOf(SubSeq(s, 1, Len(s) - 1)) + DigitVal(s[Len(s)])

\* str(n) of an int n >= 0
RECURSIVE StrOfNat(_)
StrOfNat(n) ==
  IF n < 10 THEN <<DigitChars[n + 1]>>
  ELSE StrOfNat(n \div 10) \o <<DigitChars[(n % 10) + 1]>>

StrOfInt(n) == IF n < 0 THEN <<"-">> \o StrOfNat(0 - n) ELSE StrOfNat(n)

MinOf(S) == CHOOSE x \in S : \A y \in S : x <= y

MaxOf(S) == CHOOSE x \in S : \A y \in S : y <= x

(***************************************************************************)
(* The string literals of SemanticRuleParser and RuleEngine.  The entry    *)
(* espanol is the Spanish word with n-tilde as its fifth character, which  *)
(* is written "n~" here.                                                   *)
(***************************************************************************)
Lit ==
  [
    if |-> <<"i","f">>,
    then |-> <<"t","h","e","n">>,
    risk |-> <<"r","i","s","k">>,
    likelihood |-> <<"l","i","k","e","l","i","h","o","o","d">>,
    high |-> <<"h","i","g","h">>,
    medium |-> <<"m","e","d","i","u","m">>,
    low |-> <<"l","o","w">>,
    risk_is |-> <<"r","i","s","k"," ","i","s"," ">>,
    within |-> <<"w","i","t","h","i","n"," ">>,
    hour |-> <<" ","h","o","u","r">>,
    or_less |-> <<"o","r"," ","l","e","s","s">>,
    before |-> <<"b","e","f","o","r","e">>,
    appointment |-> <<"a","p","p","o","i","n","t","m","e","n","t"," ">>,
    is |-> <<"i","s"," ">>,
    tomorrow |-> <<"t","o","m","o","r","r","o","w">>,
    soon |-> <<"s","o","o","n">>,
    intake |-> <<"i","n","t","a","k","e">>,
    incomplete |-> <<"i","n","c","o","m","p","l","e","t","e">>,
    missing |-> <<"m","i","s","s","i","n","g">>,
    not |-> <<"n","o","t">>,
    complete |-> <<"c","o","m","p","l","e","t","e">>,
    spanish |-> <<"s","p","a","n","i","s","h">>,
    es |-> <<"e","s">>,
    english |-> <<"e","n","g","l","i","s","h">>,
    en |-> <<"e","n">>,
    oncology |-> <<"o","n","c","o","l","o","g","y">>,
    ortho |-> <<"o","r","t","h","o">>,
    mri |-> <<"m","r","i">>,
    obgyn |-> <<"o","b","/","g","y","n">>,
    pt_session |-> <<"p","t"," ","s","e","s","s","i","o","n">>,
    sms |-> <<"s","m","s">>,
    text |-> <<"t","e","x","t">>,
    message |-> <<"m","e","s","s","a","g","e">>,
    email |-> <<"e","m","a","i","l">>,
    call |-> <<"c","a","l","l">>,
    phone |-> <<"p","h","o","n","e">>,
    urgent |-> <<"u","r","g","e","n","t">>,
    important |-> <<"i","m","p","o","r","t","a","n","t">>,
    asap |-> <<"a","s","a","p">>,
    reminder |-> <<"r","e","m","i","n","d","e","r">>,
    espanol |-> <<"e","s","p","a","n~","o","l">>,
    remind |-> <<"r","e","m","i","n","d">>,
    saying |-> <<"s","a","y","i","n","g"," ">>,
    message_sp |-> <<"m","e","s","s","a","g","e"," ">>,
    with |-> <<"w","i","t","h"," ">>,
    subject |-> <<"s","u","b","j","e","c","t"," ">>,
    COMPLETE |-> <<"C","O","M","P","L","E","T","E">>,
    INCOMPLETE |-> <<"I","N","C","O","M","P","L","E","T","E">>,
    Appointment_Reminder |-> <<"A","p","p","o","i","n","t","m","e","n","t"," ","R","e","m","i","n","d","e","r">>,
    True |-> <<"T","r","u","e">>,
    False |-> <<"F","a","l","s","e">>,
    None |-> <<"N","o","n","e">>
  ]

(***************************************************************************)
(* Python values held in conditions and contexts, tagged by type.          *)
(***************************************************************************)
PyStr(x) == [k |-> "str", s |-> x, n |-> 0, d |-> 1, b |-> FALSE]

\* an int
PyNum(x) == [k |-> "int", s |-> <<>>, n |-> x, d |-> 1, b |-> FALSE]

\* the float x / y, y > 0
PyFloat(x, y) == [k |-> "float", s |-> <<>>, n |-> x, d |-> y, b |-> FALSE]

PyBool(x) == [k |-> "bool", s |-> <<>>, n |-> 0, d |-> 1, b |-> x]

PyNone == [k |-> "none", s |-> <<>>, n |-> 0, d |-> 1, b |-> FALSE]

\* an empty list
PyEmptyList == [k |-> "list", s |-> <<>>, n |-> 0, d |-> 1, b |-> FALSE]

\* str(v).  A float prints as Python prints it when it is a whole number or a
\* whole number of tenths, which is what the timestamps of the datasets give.
PyToStr(v) ==
  CASE v.k = "str" -> v.s
    [] v.k = "int" -> StrOfInt(v.n)
    [] v.k = "float" ->
         StrOfInt(v.n \div v.d) \o <<".">> \o StrOfNat(((v.n % v.d) * 10) \div v.d)
    [] v.k = "bool" -> IF v.b THEN Lit.True ELSE Lit.False
    [] v.k = "none" -> Lit.None
    [] OTHER -> <<"[", "]">>

\* float(v): [ok, n, d]; a str converts when it is a string of digits, and
\* anything else raises (ok = FALSE)
PyToFloat(v) ==
  CASE v.k \in {"int", "float"} -> [ok |-> TRUE, n |-> v.n, d |-> v.d]
    [] v.k = "bool" -> [ok |-> TRUE, n |-> IF v.b THEN 1 ELSE 0, d |-> 1]
    [] v.k = "str" ->
         IF v.s # <<>> /\ \A i \in 1..Len(v.s) : IsDigit(v.s[i])
           THEN [ok |-> TRUE, n |-> IntOf(v.s), d |-> 1]
           ELSE [ok |-> FALSE, n |-> 0, d |-> 1]
    [] OTHER -> [ok |-> FALSE, n |-> 0, d |-> 1]

\* bool(v)
PyTruthy(v) ==
  CASE v.k = "str" -> v.s # <<>>
    [] v.k \in {"int", "float"} -> v.n # 0
    [] v.k = "bool" -> v.b
    [] OTHER -> FALSE

(***************************************************************************)
(* base_templates of _generate_smart_template, by channel and tone.        *)
(***************************************************************************)
base_templates ==
  [
    SMS |-> [
      \* URGENT: {patient_first_name}, please {action_needed} for your {appointment_type} appointment.
      urgent |->
        <<"U","R","G","E","N","T",":"," ","{","p","a","t","i","e","n","t","_","f","i","r","s","t","_","n","a","m","e","}",","," ","p","l","e","a","s","e"," ","{","a","c","t","i","o","n","_","n","e","e","d","e","d","}"," ","f","o","r"," ","y","o","u","r"," ","{","a","p","p","o","i","n","t","m","e","n","t","_","t","y","p","e","}"," ","a","p","p","o","i","n","t","m","e","n","t",".">>,
      \* Hi {patient_first_name}, reminder about your {appointment_type} appointment at {practice_name}.
      reminder |->
        <<"H","i"," ","{","p","a","t","i","e","n","t","_","f","i","r","s","t","_","n","a","m","e","}",","," ","r","e","m","i","n","d","e","r"," ","a","b","o","u","t"," ","y","o","u","r"," ","{","a","p","p","o","i","n","t","m","e","n","t","_","t","y","p","e","}"," ","a","p","p","o","i","n","t","m","e","n","t"," ","a","t"," ","{","p","r","a","c","t","i","c","e","_","n","a","m","e","}",".">>,
      \* Hola {patient_first_name}, recordatorio sobre su cita de {appointment_type}.
      spanish |->
        <<"H","o","l","a"," ","{","p","a","t","i","e","n","t","_","f","i","r","s","t","_","n","a","m","e","}",","," ","r","e","c","o","r","d","a","t","o","r","i","o"," ","s","o","b","r","e"," ","s","u"," ","c","i","t","a"," ","d","e"," ","{","a","p","p","o","i","n","t","m","e","n","t","_","t","y","p","e","}",".">>,
      \* Hi {patient_first_name}, this is a reminder about your {appointment_type} appointment.
      default |->
        <<"H","i"," ","{","p","a","t","i","e","n","t","_","f","i","r","s","t","_","n","a","m","e","}",","," ","t","h","i","s"," ","i","s"," ","a"," ","r","e","m","i","n","d","e","r"," ","a","b","o","u","t"," ","y","o","u","r"," ","{","a","p","p","o","i","n","t","m","e","n","t","_","t","y","p","e","}"," ","a","p","p","o","i","n","t","m","e","n","t",".">>
    ],
    EMAIL |-> [
      \* Dear {patient_first_name},\n\nThis is an urgent reminder about your {appointment_type} appointment.\n\nPlease contact us immediately.\n\nBest regards,\n{practice_name}
      urgent |->
        <<"D","e","a","r"," ","{","p","a","t","i","e","n","t","_","f","i","r","s","t","_","n","a","m","e","}",",","\n","\n","T","h","i","s"," ","i","s"," ","a","n"," ","u","r","g","e","n","t"," ","r","e","m","i","n","d","e","r"," ","a","b","o","u","t"," ","y","o","u","r"," ","{","a","p","p","o","i","n","t","m","e","n","t","_","t","y","p","e","}"," ","a","p","p","o","i","n","t","m","e","n","t",".","\n","\n","P","l","e","a","s","e"," ","c","o","n","t","a","c","t"," ","u","s"," ","i","m","m","e","d","i","a","t","e","l","y",".","\n","\n","B","e","s","t"," ","r","e","g","a","r","d","s",",","\n","{","p","r","a","c","t","i","c","e","_","n","a","m","e","}">>,
      \* Dear {patient_first_name},\n\nThis is a friendly reminder about your upcoming {appointment_type} appointment.\n\nThank you,\n{practice_name}
      reminder |->
        <<"D","e","a","r"," ","{","p","a","t","i","e","n","t","_","f","i","r","s","t","_","n","a","m","e","}",",","\n","\n","T","h","i","s"," ","i","s"," ","a"," ","f","r","i","e","n","d","l","y"," ","r","e","m","i","n","d","e","r"," ","a","b","o","u","t"," ","y","o","u","r"," ","u","p","c","o","m","i","n","g"," ","{","a","p","p","o","i","n","t","m","e","n","t","_","t","y","p","e","}"," ","a","p","p","o","i","n","t","m","e","n","t",".","\n","\n","T","h","a","n","k"," ","y","o","u",",","\n","{","p","r","a","c","t","i","c","e","_","n","a","m","e","}">>,
      \* Estimado/a {patient_first_name},\n\nEste es un recordatorio sobre su cita de {appointment_type}.\n\nGracias,\n{practice_name}
      spanish |->
        <<"E","s","t","i","m","a","d","o","/","a"," ","{","p","a","t","i","e","n","t","_","f","i","r","s","t","_","n","a","m","e","}",",","\n","\n","E","s","t","e"," ","e","s"," ","u","n"," ","r","e","c","o","r","d","a","t","o","r","i","o"," ","s","o","b","r","e"," ","s","u"," ","c","i","t","a"," ","d","e"," ","{","a","p","p","o","i","n","t","m","e","n","t","_","t","y","p","e","}",".","\n","\n","G","r","a","c","i","a","s",",","\n","{","p","r","a","c","t","i","c","e","_","n","a","m","e","}">>,
      \* Dear {patient_first_name},\n\nThis is a reminder about your {appointment_type} appointment.\n\nBest regards,\n{practice_name}
      default |->
        <<"D","e","a","r"," ","{","p","a","t","i","e","n","t","_","f","i","r","s","t","_","n","a","m","e","}",",","\n","\n","T","h","i","s"," ","i","s"," ","a"," ","r","e","m","i","n","d","e","r"," ","a","b","o","u","t"," ","y","o","u","r"," ","{","a","p","p","o","i","n","t","m","e","n","t","_","t","y","p","e","}"," ","a","p","p","o","i","n","t","m","e","n","t",".","\n","\n","B","e","s","t"," ","r","e","g","a","r","d","s",",","\n","{","p","r","a","c","t","i","c","e","_","n","a","m","e","}">>
    ],
    CALL |-> [
      \* Hi {patient_first_name}, this is {practice_name} calling urgently about your {appointment_type} appointment.
      urgent |->
        <<"H","i"," ","{","p","a","t","i","e","n","t","_","f","i","r","s","t","_","n","a","m","e","}",","," ","t","h","i","s"," ","i","s"," ","{","p","r","a","c","t","i","c","e","_","n","a","m","e","}"," ","c","a","l","l","i","n","g"," ","u","r","g","e","n","t","l","y"," ","a","b","o","u","t"," ","y","o","u","r"," ","{","a","p","p","o","i","n","t","m","e","n","t","_","t","y","p","e","}"," ","a","p","p","o","i","n","t","m","e","n","t",".">>,
      \* Hi {patient_first_name}, this is {practice_name} calling to remind you about your {appointment_type} appointment.
      reminder |->
        <<"H","i"," ","{","p","a","t","i","e","n","t","_","f","i","r","s","t","_","n","a","m","e","}",","," ","t","h","i","s"," ","i","s"," ","{","p","r","a","c","t","i","c","e","_","n","a","m","e","}"," ","c","a","l","l","i","n","g"," ","t","o"," ","r","e","m","i","n","d"," ","y","o","u"," ","a","b","o","u","t"," ","y","o","u","r"," ","{","a","p","p","o","i","n","t","m","e","n","t","_","t","y","p","e","}"," ","a","p","p","o","i","n","t","m","e","n","t",".">>,
      \* Hola {patient_first_name}, le llama {practice_name} sobre su cita de {appointment_type}.
      spanish |->
        <<"H","o","l","a"," ","{","p","a","t","i","e","n","t","_","f","i","r","s","t","_","n","a","m","e","}",","," ","l","e"," ","l","l","a","m","a"," ","{","p","r","a","c","t","i","c","e","_","n","a","m","e","}"," ","s","o","b","r","e"," ","s","u"," ","c","i","t","a"," ","d","e"," ","{","a","p","p","o","i","n","t","m","e","n","t","_","t","y","p","e","}",".">>,
      \* Hi {patient_first_name}, this is {practice_name} calling about your {appointment_type} appointment.
      default |->
        <<"H","i"," ","{","p","a","t","i","e","n","t","_","f","i","r","s","t","_","n","a","m","e","}",","," ","t","h","i","s"," ","i","s"," ","{","p","r","a","c","t","i","c","e","_","n","a","m","e","}"," ","c","a","l","l","i","n","g"," ","a","b","o","u","t"," ","y","o","u","r"," ","{","a","p","p","o","i","n","t","m","e","n","t","_","t","y","p","e","}"," ","a","p","p","o","i","n","t","m","e","n","t",".">>
    ]
  ]

(***************************************************************************)
(* The keys of the context dict of _build_context, spelled out: a          *)
(* placeholder {name} of a template is looked up by its characters.        *)
(***************************************************************************)
ContextKeys ==
  [
    appointment_id |-> <<"a","p","p","o","i","n","t","m","e","n","t","_","i","d">>,
    patient_id |-> <<"p","a","t","i","e","n","t","_","i","d">>,
    patient_first_name |-> <<"p","a","t","i","e","n","t","_","f","i","r","s","t","_","n","a","m","e">>,
    patient_last_name |-> <<"p","a","t","i","e","n","t","_","l","a","s","t","_","n","a","m","e">>,
    patient_phone |-> <<"p","a","t","i","e","n","t","_","p","h","o","n","e">>,
    patient_email |-> <<"p","a","t","i","e","n","t","_","e","m","a","i","l">>,
    patient_language |-> <<"p","a","t","i","e","n","t","_","l","a","n","g","u","a","g","e">>,
    patient_dnc |-> <<"p","a","t","i","e","n","t","_","d","n","c">>,
    patient_comm_sms |-> <<"p","a","t","i","e","n","t","_","c","o","m","m","_","s","m","s">>,
    patient_comm_email |-> <<"p","a","t","i","e","n","t","_","c","o","m","m","_","e","m","a","i","l">>,
    patient_comm_call |-> <<"p","a","t","i","e","n","t","_","c","o","m","m","_","c","a","l","l">>,
    practice_name |-> <<"p","r","a","c","t","i","c","e","_","n","a","m","e">>,
    practice_timezone |-> <<"p","r","a","c","t","i","c","e","_","t","i","m","e","z","o","n","e">>,
    practice_phone |-> <<"p","r","a","c","t","i","c","e","_","p","h","o","n","e">>,
    practice_email |-> <<"p","r","a","c","t","i","c","e","_","e","m","a","i","l">>,
    practice_domain |-> <<"p","r","a","c","t","i","c","e","_","d","o","m","a","i","n">>,
    appointment_type |-> <<"a","p","p","o","i","n","t","m","e","n","t","_","t","y","p","e">>,
    appointment_status |-> <<"a","p","p","o","i","n","t","m","e","n","t","_","s","t","a","t","u","s">>,
    appointment_location |-> <<"a","p","p","o","i","n","t","m","e","n","t","_","l","o","c","a","t","i","o","n">>,
    appointment_start_time |-> <<"a","p","p","o","i","n","t","m","e","n","t","_","s","t","a","r","t","_","t","i","m","e">>,
    appointment_formatted_time |-> <<"a","p","p","o","i","n","t","m","e","n","t","_","f","o","r","m","a","t","t","e","d","_","t","i","m","e">>,
    no_show_risk |-> <<"n","o","_","s","h","o","w","_","r","i","s","k">>,
    intake_status |-> <<"i","n","t","a","k","e","_","s","t","a","t","u","s">>,
    intake_last_updated |-> <<"i","n","t","a","k","e","_","l","a","s","t","_","u","p","d","a","t","e","d">>,
    intake_link |-> <<"i","n","t","a","k","e","_","l","i","n","k">>,
    hours_until |-> <<"h","o","u","r","s","_","u","n","t","i","l">>,
    related_events |-> <<"r","e","l","a","t","e","d","_","e","v","e","n","t","s">>,
    recent_events |-> <<"r","e","c","e","n","t","_","e","v","e","n","t","s">>
  ]
(***************************************************************************)
(* SemanticRuleParser.                                                     *)
(***************************************************************************)
AllSpace(s, lo, hi) == lo <= hi /\ \A k \in lo..hi : IsSpace(s[k])

NoNewline(s, lo, hi) == lo <= hi /\ \A k \in lo..hi : s[k] # "\n"

\* re.search(r'if\s+(.+?)\s+then\s+(.+)', s).  "if" starts at i, group 1 is
\* s[a..b], "then" starts at c, group 2 starts at d.  The match returned is the
\* first one backtracking finds: leftmost i, then the longest \s+ (largest a),
\* then the shortest group 1 (smallest b), then the longest \s+ (largest d);
\* group 2 (.+, greedy) runs to the end of the line.
if_then_search(s) ==
  LET n == Len(s)
      ValidC(c) == \E d \in (c + 5)..n : AllSpace(s, c + 4, d - 1) /\ s[d] # "\n"
      ThenAfter(b) ==
        {c \in (b + 2)..n : AllSpace(s, b + 1, c - 1) /\ StartsAt(s, c, Lit.then) /\ ValidC(c)}
      ValidB(a, b) == NoNewline(s, a, b) /\ ThenAfter(b) # {}
      ValidA(a) == \E b \in a..n : ValidB(a, b)
      As(i) == {a \in (i + 3)..n : AllSpace(s, i + 2, a - 1)}
      ValidI(i) == StartsAt(s, i, Lit.if) /\ \E a \in As(i) : ValidA(a)
      I == {i \in 1..n : ValidI(i)}
  IN  IF I = {} THEN [found |-> FALSE, group1 |-> <<>>, group2 |-> <<>>]
      ELSE
        LET i0 == MinOf(I)
            a0 == MaxOf({a \in As(i0) : ValidA(a)})
            b0 == MinOf({b \in a0..n : ValidB(a0, b)})
            c0 == MaxOf(ThenAfter(b0))
            d0 == MaxOf({d \in (c0 + 5)..n : AllSpace(s, c0 + 4, d - 1) /\ s[d] # "\n"})
            e0 == MaxOf({e \in d0..n : NoNewline(s, d0, e)})
        IN  [found |-> TRUE, group1 |-> SubSeq(s, a0, b0), group2 |-> SubSeq(s, d0, e0)]

ParsedCondition(t, f, o, v, c) ==
  [type |-> t, field |-> f, operator |-> o, value |-> v, confidence |-> c]

\* Risk level detection.  Confidences are in tenths: 9 is 0.9.
risk_conditions(text) ==
  LET levels == <<Lit.high, Lit.medium, Lit.low>>
      one(k) ==
        IF Contains(text, levels[k])
          THEN <<ParsedCondition("risk_level", "no_show_risk", "equals",
                                 PyStr(levels[k]),
                                 IF Contains(text, Lit.risk_is \o levels[k]) THEN 9 ELSE 7)>>
          ELSE <<>>
  IN  IF ContainsAny(text, <<Lit.risk, Lit.likelihood>>)
        THEN one(1) \o one(2) \o one(3)
        ELSE <<>>

\* re.search(r'within (\d+) hours?', text): [found, hours]
within_hours_search(text) ==
  LET n == Len(text)
      ok(p) == /\ StartsAt(text, p, Lit.within)
               /\ DigitRun(text, p + 7) >= 1
               /\ StartsAt(text, p + 7 + DigitRun(text, p + 7), Lit.hour)
      P == {p \in 1..n : ok(p)}
  IN  IF P = {} THEN [found |-> FALSE, hours |-> 0]
      ELSE LET p0 == MinOf(P)
           IN  [found |-> TRUE,
                hours |-> IntOf(SubSeq(text, p0 + 7, p0 + 6 + DigitRun(text, p0 + 7)))]

\* re.search(r'(\d+) hours? (?:or less|before)', text): [found, hours]
hours_before_search(text) ==
  LET n == Len(text)
      tail(q) == \/ StartsAt(text, q, <<" ">> \o Lit.or_less)
                 \/ StartsAt(text, q, <<" ">> \o Lit.before)
      ok(p) == LET r == DigitRun(text, p)
               IN  /\ r >= 1
                   /\ StartsAt(text, p + r, Lit.hour)
                   /\ \/ StartsAt(text, p + r + 5, <<"s">>) /\ tail(p + r + 6)
                      \/ tail(p + r + 5)
      P == {p \in 1..n : ok(p)}
  IN  IF P = {} THEN [found |-> FALSE, hours |-> 0]
      ELSE LET p0 == MinOf(P)
           IN  [found |-> TRUE, hours |-> IntOf(SubSeq(text, p0, p0 + DigitRun(text, p0) - 1))]

\* re.search(r'appointment (?:is )?<word>', text)
appointment_is_search(text, word) ==
  \/ Contains(text, Lit.appointment \o word)
  \/ Contains(text, Lit.appointment \o Lit.is \o word)

\* Time-based detection: the four time_patterns, in order.
time_conditions(text) ==
  LET hrs(h, c) ==
        <<ParsedCondition("time_based", "hours_until", "<=", PyNum(h), c)>>
      m1 == within_hours_search(text)
      m2 == hours_before_search(text)
  IN  (IF m1.found THEN hrs(m1.hours, 9) ELSE <<>>)
      \o (IF m2.found THEN hrs(m2.hours, 9) ELSE <<>>)
      \o (IF appointment_is_search(text, Lit.tomorrow) THEN hrs(24, 8) ELSE <<>>)
      \o (IF appointment_is_search(text, Lit.soon) THEN hrs(48, 8) ELSE <<>>)

\* Intake status detection.
intake_conditions(text) ==
  LET st(v) ==
        <<ParsedCondition("status", "intake_status", "equals", PyStr(v), 8)>>
  IN  IF Contains(text, Lit.intake)
        THEN IF ContainsAny(text, <<Lit.incomplete, Lit.missing, Lit.not>>)
               THEN st(Lit.INCOMPLETE)
               ELSE IF Contains(text, Lit.complete) THEN st(Lit.COMPLETE) ELSE <<>>
        ELSE <<>>

\* Language detection.
language_conditions(text) ==
  LET lang(v) ==
        <<ParsedCondition("language", "patient_language", "equals", PyStr(v), 9)>>
  IN  IF Contains(text, Lit.spanish) \/ Contains(text, Lit.es)
        THEN lang(Lit.es)
        ELSE IF Contains(text, Lit.english) \/ Contains(text, Lit.en)
               THEN lang(Lit.en)
               ELSE <<>>

\* Appointment type detection.
appointment_type_conditions(text) ==
  LET appointment_types == <<Lit.oncology, Lit.ortho, Lit.mri, Lit.obgyn, Lit.pt_session>>
      one(k) ==
        IF Contains(text, Lower(appointment_types[k]))
          THEN <<ParsedCondition("appointment_type", "appointment_type", "contains",
                                 PyStr(Title(appointment_types[k])), 8)>>
          ELSE <<>>
  IN  one(1) \o one(2) \o one(3) \o one(4) \o one(5)

_parse_conditions_semantic(text) ==
  risk_conditions(text) \o time_conditions(text) \o intake_conditions(text)
    \o language_conditions(text) \o appointment_type_conditions(text)

IsQuote(c) == c \in {"\"", "'"}

\* re.search(prefix + r'["\']([^"\']+)["\']', text): [found, group]
quoted_after_search(text, prefix) ==
  LET n == Len(text)
      q(p) == p + Len(prefix)
      run(p) == MaxOf({r \in 0..n : \A j \in 1..r : q(p) + j <= n /\ ~IsQuote(text[q(p) + j])})
      ok(p) == /\ StartsAt(text, p, prefix)
               /\ q(p) <= n /\ IsQuote(text[q(p)])
               /\ run(p) >= 1
               /\ q(p) + run(p) + 1 <= n
      P == {p \in 1..n : ok(p)}
  IN  IF P = {} THEN [found |-> FALSE, group |-> <<>>]
      ELSE LET p0 == MinOf(P)
           IN  [found |-> TRUE, group |-> SubSeq(text, q(p0) + 1, q(p0) + run(p0))]

\* the first of the three patterns that matches, or None
_extract_custom_message(text) ==
  LET m1 == quoted_after_search(text, Lit.saying)
      m2 == quoted_after_search(text, Lit.message_sp)
      m3 == quoted_after_search(text, Lit.with)
  IN  IF m1.found THEN PyStr(m1.group)
      ELSE IF m2.found THEN PyStr(m2.group)
      ELSE IF m3.found THEN PyStr(m3.group)
      ELSE PyNone

_extract_subject(text) ==
  LET m == quoted_after_search(text, Lit.subject)
  IN  IF m.found THEN PyStr(m.group) ELSE PyNone

_generate_smart_template(action_type, context) ==
  LET template_type ==
        IF ContainsAny(context, <<Lit.urgent, Lit.important, Lit.asap>>) THEN "urgent"
        ELSE IF ContainsAny(context, <<Lit.spanish, Lit.espanol>>) THEN "spanish"
        ELSE IF ContainsAny(context, <<Lit.reminder, Lit.remind>>) THEN "reminder"
        ELSE "default"
  IN  base_templates[action_type][template_type]

\* template is the SMS text, the CALL script or the EMAIL body template;
\* template_subject is the 'subject' entry of an EMAIL's template dict.
ParsedAction(t, tpl, tsubj, msg, subj) ==
  [type |-> t, template |-> tpl, template_subject |-> tsubj,
   custom_message |-> msg, subject |-> subj]

\* custom_msg or self._generate_smart_template(action_type, text)
template_or_custom(custom_msg, action_type, text) ==
  IF custom_msg.k = "str" /\ custom_msg.s # <<>>
    THEN custom_msg.s
    ELSE _generate_smart_template(action_type, text)

\* self._extract_subject(text) or "Appointment Reminder"
subject_or_default(subject) ==
  IF subject.k = "str" /\ subject.s # <<>> THEN subject.s ELSE Lit.Appointment_Reminder

\* the SMS branch
sms_actions(text, custom_msg) ==
  IF ContainsAny(text, <<Lit.sms, Lit.text, Lit.message>>)
    THEN <<ParsedAction("SMS", template_or_custom(custom_msg, "SMS", text), <<>>,
                        custom_msg, PyNone)>>
    ELSE <<>>

\* the EMAIL branch
email_actions(text, custom_msg, subject) ==
  IF Contains(text, Lit.email)
    THEN <<ParsedAction("EMAIL", template_or_custom(custom_msg, "EMAIL", text), subject,
                        custom_msg, PyStr(subject))>>
    ELSE <<>>

\* the CALL branch with 'phone' as its only word
call_actions_phone_only(text, custom_msg) ==
  IF Contains(text, Lit.phone)
    THEN <<ParsedAction("CALL", template_or_custom(custom_msg, "CALL", text), <<>>,
                        custom_msg, PyNone)>>
    ELSE <<>>

\* the CALL branch
call_actions(text, custom_msg) ==
  IF ContainsAny(text, <<Lit.call, Lit.phone>>)
    THEN <<ParsedAction("CALL", template_or_custom(custom_msg, "CALL", text), <<>>,
                        custom_msg, PyNone)>>
    ELSE <<>>

_parse_actions_semantic(text) ==
  sms_actions(text, _extract_custom_message(text))
    \o email_actions(text, _extract_custom_message(text),
                     subject_or_default(_extract_subject(text)))
    \o call_actions(text, _extract_custom_message(text))

RECURSIVE MinConfidence(_)
MinConfidence(conds) ==
  IF Len(conds) = 1 THEN conds[1].confidence
  ELSE LET m == MinConfidence(Tail(conds))
       IN  IF conds[1].confidence <= m THEN conds[1].confidence ELSE m

\* None is [ok |-> FALSE]; a parsed rule has ok = TRUE.  confidence is in tenths.
NoRule ==
  [ok |-> FALSE, conditions |-> <<>>, actions |-> <<>>, original_text |-> <<>>, confidence |-> 0]

\* semantic_parse that falls back, for a text without an if/then structure,
\* to reading conditions and actions from the whole text
semantic_parse_lenient(rule_text) ==
  LET text == Lower(Strip(rule_text))
      if_then_match == if_then_search(text)
      conditions == _parse_conditions_semantic(IF if_then_match.found THEN if_then_match.group1 ELSE text)
      actions == _parse_actions_semantic(IF if_then_match.found THEN if_then_match.group2 ELSE text)
  IN  [ok |-> TRUE,
       conditions |-> conditions,
       actions |-> actions,
       original_text |-> text,
       confidence |-> IF conditions # <<>> THEN MinConfidence(conditions) ELSE 5]

\* the dict semantic_parse returns
parsed_rule_dict(conditions, actions, text) ==
  [ok |-> TRUE,
   conditions |-> conditions,
   actions |-> actions,
   original_text |-> text,
   confidence |-> IF conditions # <<>> THEN MinConfidence(conditions) ELSE 5]

\* semantic_parse from the search of the if/then structure on
parse_if_then_match(text, if_then_match) ==
  IF ~if_then_match.found THEN NoRule
  ELSE parsed_rule_dict(_parse_conditions_semantic(if_then_match.group1),
                        _parse_actions_semantic(if_then_match.group2),
                        text)

\* semantic_parse after rule_text.strip().lower()
parse_lowered(text) == parse_if_then_match(text, if_then_search(text))

semantic_parse(rule_text) == parse_lowered(Lower(Strip(rule_text)))

(***************************************************************************)
(* The rule texts the model submits.                                       *)
(***************************************************************************)
Rule ==
  [
    \* If high risk and intake is incomplete then send SMS
    two |->
      <<"I","f"," ","h","i","g","h"," ","r","i","s","k"," ","a","n","d"," ","i","n","t","a","k","e"," ","i","s"," ","i","n","c","o","m","p","l","e","t","e"," ","t","h","e","n"," ","s","e","n","d"," ","S","M","S">>,
    \* Send SMS to every high risk patient
    nobound |->
      <<"S","e","n","d"," ","S","M","S"," ","t","o"," ","e","v","e","r","y"," ","h","i","g","h"," ","r","i","s","k"," ","p","a","t","i","e","n","t">>,
    \* If always then send SMS
    zero |->
      <<"I","f"," ","a","l","w","a","y","s"," ","t","h","e","n"," ","s","e","n","d"," ","S","M","S">>,
    \* If risk is high then call patient
    call |->
      <<"I","f"," ","r","i","s","k"," ","i","s"," ","h","i","g","h"," ","t","h","e","n"," ","c","a","l","l"," ","p","a","t","i","e","n","t">>,
    \* If patient speaks spanish then send SMS
    spanish |->
      <<"I","f"," ","p","a","t","i","e","n","t"," ","s","p","e","a","k","s"," ","s","p","a","n","i","s","h"," ","t","h","e","n"," ","s","e","n","d"," ","S","M","S">>,
    \* If intake is incomplete then send SMS saying 'Please complete your intake form'
    custom |->
      <<"I","f"," ","i","n","t","a","k","e"," ","i","s"," ","i","n","c","o","m","p","l","e","t","e"," ","t","h","e","n"," ","s","e","n","d"," ","S","M","S"," ","s","a","y","i","n","g"," ","'","P","l","e","a","s","e"," ","c","o","m","p","l","e","t","e"," ","y","o","u","r"," ","i","n","t","a","k","e"," ","f","o","r","m","'">>,
    \* If high risk then call patient
    high_call |->
      <<"I","f"," ","h","i","g","h"," ","r","i","s","k"," ","t","h","e","n"," ","c","a","l","l"," ","p","a","t","i","e","n","t">>,
    \* If high risk then send urgent SMS, email and call patient
    urgent |->
      <<"I","f"," ","h","i","g","h"," ","r","i","s","k"," ","t","h","e","n"," ","s","e","n","d"," ","u","r","g","e","n","t"," ","S","M","S",","," ","e","m","a","i","l"," ","a","n","d"," ","c","a","l","l"," ","p","a","t","i","e","n","t">>,
    \* If high risk then notify the patient
    notify |->
      <<"I","f"," ","h","i","g","h"," ","r","i","s","k"," ","t","h","e","n"," ","n","o","t","i","f","y"," ","t","h","e"," ","p","a","t","i","e","n","t">>,
    \* When high risk then call patient
    when_call |->
      <<"W","h","e","n"," ","h","i","g","h"," ","r","i","s","k"," ","t","h","e","n"," ","c","a","l","l"," ","p","a","t","i","e","n","t">>,
    \* If patient is high risk then call patient
    patient_call |->
      <<"I","f"," ","p","a","t","i","e","n","t"," ","i","s"," ","h","i","g","h"," ","r","i","s","k"," ","t","h","e","n"," ","c","a","l","l"," ","p","a","t","i","e","n","t">>
  ]

RuleTexts == {Rule.two, Rule.nobound, Rule.zero}

Limits == 0..MaxLimit

\* the rule texts of the scenarios: a language condition, a quoted custom
\* message, a call, three channels with an urgent tone, a then-clause that
\* names no channel, the call rule written with "when" for "if", and the
\* call rule with the word "patient" in its if-clause
ScenarioTexts ==
  {Rule.spanish, Rule.custom, Rule.high_call, Rule.urgent, Rule.notify, Rule.when_call,
   Rule.patient_call}

\* the scenarios ask for as many matches as MaxLimit
ScenarioLimits == {MaxLimit}

(***************************************************************************)
(* The record store.  Practices and patients are fixed tables; a dataset   *)
(* is an ordered list of appointments (the insertion order of the          *)
(* appointments dict) with at most one intake each.                        *)
(***************************************************************************)
Practices ==
  [id \in {<<"p","r","1">>} |->
     [id |-> id, name |-> <<"F","l","o","e">>, timezone |-> <<"U","T","C">>, default_sender_phone |-> <<"+","1","0","0">>,
      reply_to_email |-> <<"h","i","@","f","l","o","e">>, domain |-> <<"f","l","o","e">>]]

Patients ==
  (<<"p","1">> :> [id |-> <<"p","1">>, first_name |-> <<"A","n","a">>, last_name |-> <<"P","a","z">>, phone |-> <<"+","1","0","1">>,
            email |-> <<"a","n","a","@","x">>, language |-> <<"e","s">>, dnc |-> FALSE,
            comm_prefs |-> [sms |-> TRUE, email |-> TRUE, call |-> TRUE]])
  @@
  (<<"p","2">> :> [id |-> <<"p","2">>, first_name |-> <<"B","o","b">>, last_name |-> <<"R","a","y">>, phone |-> <<"+","1","0","2">>,
            email |-> <<"b","o","b","@","x">>, language |-> <<"e","n">>, dnc |-> TRUE,
            comm_prefs |-> [sms |-> TRUE, email |-> FALSE, call |-> FALSE]])

\* An appointment of the appointments file together with its record of the intakes
\* file, if there is one (present).
Profile ==
  [
    oncology |->
      [patient_id |-> <<"p","1">>, practice_id |-> <<"p","r","1">>, no_show_risk |-> <<"h","i","g","h">>,
       type |-> <<"O","n","c","o","l","o","g","y"," ","i","n","f","u","s","i","o","n">>,
       status |-> <<"S","C","H","E","D","U","L","E","D">>, location |-> <<"M","a","i","n">>,
       start_time |-> <<"2","0","2","5","-","0","9","-","1","0","T","1","8",":","0","0",":","0","0">>,
       intake |-> [present |-> TRUE, status |-> <<"C","O","M","P","L","E","T","E">>]],
    mri |->
      [patient_id |-> <<"p","2">>, practice_id |-> <<"p","r","1">>, no_show_risk |-> <<"h","i","g","h">>,
       type |-> <<"M","R","I">>,
       status |-> <<"S","C","H","E","D","U","L","E","D">>, location |-> <<"M","a","i","n">>,
       start_time |-> <<"2","0","2","5","-","0","9","-","1","1","T","1","2",":","0","0",":","0","0">>,
       intake |-> [present |-> FALSE, status |-> <<>>]],
    pt |->
      [patient_id |-> <<"p","1">>, practice_id |-> <<"p","r","1">>, no_show_risk |-> <<"l","o","w">>,
       type |-> <<"P","T"," ","s","e","s","s","i","o","n">>,
       status |-> <<"S","C","H","E","D","U","L","E","D">>, location |-> <<"M","a","i","n">>,
       start_time |-> <<"t","o","m","o","r","r","o","w">>,
       intake |-> [present |-> TRUE, status |-> <<"C","O","M","P","L","E","T","E">>]],
    ortho |->
      [patient_id |-> <<"p","1">>, practice_id |-> <<"p","r","1">>, no_show_risk |-> <<"l","o","w">>,
       type |-> <<"O","r","t","h","o"," ","c","o","n","s","u","l","t">>,
       status |-> <<"S","C","H","E","D","U","L","E","D">>, location |-> <<"M","a","i","n">>,
       start_time |-> <<"2","0","2","5","-","0","9","-","1","2">>,
       intake |-> [present |-> TRUE, status |-> <<"I","N","C","O","M","P","L","E","T","E">>]],
    \* a past appointment of Ana, high risk, without an intake record
    walkin |->
      [patient_id |-> <<"p","1">>, practice_id |-> <<"p","r","1">>, no_show_risk |-> <<"h","i","g","h">>,
       type |-> <<"M","R","I">>,
       status |-> <<"S","C","H","E","D","U","L","E","D">>, location |-> <<"M","a","i","n">>,
       start_time |-> <<"2","0","2","5","-","0","9","-","0","9","T","0","9",":","0","0",":","0","0">>,
       intake |-> [present |-> FALSE, status |-> <<>>]],
    \* an appointment whose patient and practice ids resolve to no record, with
    \* a start time that carries a UTC offset
    orphan |->
      [patient_id |-> <<"p","9">>, practice_id |-> <<"p","r","9">>, no_show_risk |-> <<"h","i","g","h">>,
       type |-> <<"M","R","I">>,
       status |-> <<"S","C","H","E","D","U","L","E","D">>, location |-> <<"M","a","i","n">>,
       start_time |-> <<"2","0","2","5","-","0","9","-","1","0","T","1","8",":","0","0",":","0","0","+","0","0",":","0","0">>,
       intake |-> [present |-> FALSE, status |-> <<>>]]
  ]

ApptProfiles == {Profile.oncology, Profile.mri, Profile.pt}

\* the appointment ids of a dataset of n appointments, in file order: a1, a2, ...
ApptId(i) == <<"a">> \o StrOfNat(i)

\* load_data: the five datasets indexed by primary key.  appointments keeps the
\* order of the file, as the dict does.
LoadedData(profiles) ==
  [practices |-> Practices,
   patients |-> Patients,
   appointments |->
     [i \in 1..Len(profiles) |->
        [id |-> ApptId(i),
         patient_id |-> profiles[i].patient_id,
         practice_id |-> profiles[i].practice_id,
         start_time |-> profiles[i].start_time,
         status |-> profiles[i].status,
         type |-> profiles[i].type,
         location |-> profiles[i].location,
         no_show_risk |-> profiles[i].no_show_risk]],
   intakes |->
     [id \in {ApptId(i) : i \in {j \in 1..Len(profiles) : profiles[j].intake.present}} |->
        [appointment_id |-> id,
         status |-> profiles[CHOOSE j \in 1..Len(profiles) : ApptId(j) = id].intake.status]],
   events |-> <<>>]

DataSets ==
  {LoadedData(ps) : ps \in UNION {[1..n -> ApptProfiles] : n \in 0..MaxAppts}}

\* the record stores on which single appointments are evaluated: two
\* appointments, each of the three profiles, of ortho or of orphan
PairDataSets ==
  {LoadedData(<<p, q>>) : p, q \in ApptProfiles \cup {Profile.ortho, Profile.orphan}}

ScenarioProfiles ==
  {Profile.oncology, Profile.mri, Profile.pt, Profile.walkin, Profile.orphan}

\* the record store data with the keys of keys missing from its i-th
\* appointment record: what load_data holds when the file has such a record
Malformed(data, i, keys) ==
  [data EXCEPT !.appointments[i] = [key \in DOMAIN @ \ keys |-> @[key]]]

\* the record stores of the scenarios: two appointments, each of any of the
\* five profiles, and those of oncology and walkin also with one of the keys
\* that _build_context subscripts missing from one record
ScenarioDataSets ==
  {LoadedData(<<p, q>>) : p, q \in ScenarioProfiles}
    \cup {Malformed(LoadedData(<<p, q>>), i, {key}) :
            p \in {Profile.oncology, Profile.walkin},
            q \in {Profile.oncology, Profile.walkin},
            i \in 1..2,
            key \in {"patient_id", "practice_id", "start_time"}}

(***************************************************************************)
(* datetime.fromisoformat and the difference of two datetimes, for the     *)
(* timestamps of the datasets: "YYYY-MM-DD", "YYYY-MM-DDTHH:MM:SS" and      *)
(* "YYYY-MM-DDTHH:MM:SS+HH:MM" (an aware datetime), and the basic format   *)
(* "YYYYMMDDTHHMMSS".  Any other string fails to parse here.               *)
(***************************************************************************)
AllDigits(s, lo, hi) == \A k \in lo..hi : k <= Len(s) /\ IsDigit(s[k])

IsLeap(y) == (y % 4 = 0 /\ y % 100 # 0) \/ y % 400 = 0

DaysInMonth(y, m) ==
  IF m = 2 THEN (IF IsLeap(y) THEN 29 ELSE 28)
  ELSE IF m \in {4, 6, 9, 11} THEN 30 ELSE 31

\* days from 0000-03-01 to y-m-d in the proleptic Gregorian calendar
DaysFromCivil(y, m, d) ==
  LET yy == IF m <= 2 THEN y - 1 ELSE y
      mm == IF m <= 2 THEN m + 9 ELSE m - 3
  IN  365 * yy + (yy \div 4) - (yy \div 100) + (yy \div 400) + ((153 * mm + 2) \div 5) + d - 1

\* [ok, secs, aware]: secs counts the seconds from 2000-01-01T00:00:00, in UTC
\* for an aware datetime (one with a UTC offset)
fromisoformat(date_string) ==
  LET basic == /\ Len(date_string) = 15
               /\ AllDigits(date_string, 1, 8)
               /\ date_string[9] = "T"
               /\ AllDigits(date_string, 10, 15)
      \* the basic format is read as the extended format of the same fields
      s == IF basic
             THEN SubSeq(date_string, 1, 4) \o <<"-">> \o SubSeq(date_string, 5, 6)
                    \o <<"-">> \o SubSeq(date_string, 7, 9)
                    \o SubSeq(date_string, 10, 11) \o <<":">>
                    \o SubSeq(date_string, 12, 13) \o <<":">>
                    \o SubSeq(date_string, 14, 15)
             ELSE date_string
      bad == [ok |-> FALSE, secs |-> 0, aware |-> FALSE]
      date_ok == /\ Len(s) >= 10
                 /\ AllDigits(s, 1, 4) /\ s[5] = "-" /\ AllDigits(s, 6, 7)
                 /\ s[8] = "-" /\ AllDigits(s, 9, 10)
      y == IntOf(SubSeq(s, 1, 4))
      m == IntOf(SubSeq(s, 6, 7))
      d == IntOf(SubSeq(s, 9, 10))
      offset_ok == /\ Len(s) = 25
                   /\ s[20] \in {"+", "-"}
                   /\ AllDigits(s, 21, 22) /\ s[23] = ":" /\ AllDigits(s, 24, 25)
      time_ok == /\ Len(s) = 19 \/ offset_ok
                 /\ AllDigits(s, 12, 13) /\ s[14] = ":" /\ AllDigits(s, 15, 16)
                 /\ s[17] = ":" /\ AllDigits(s, 18, 19)
      hh == IF Len(s) >= 19 THEN IntOf(SubSeq(s, 12, 13)) ELSE 0
      mi == IF Len(s) >= 19 THEN IntOf(SubSeq(s, 15, 16)) ELSE 0
      ss == IF Len(s) >= 19 THEN IntOf(SubSeq(s, 18, 19)) ELSE 0
      oh == IF Len(s) = 25 THEN IntOf(SubSeq(s, 21, 22)) ELSE 0
      om == IF Len(s) = 25 THEN IntOf(SubSeq(s, 24, 25)) ELSE 0
      utcoffset == (IF Len(s) = 25 /\ s[20] = "-" THEN -1 ELSE 1) * (oh * 60 + om) * 60
  IN  IF ~date_ok THEN bad
      ELSE IF ~(y >= 1 /\ m \in 1..12 /\ d \in 1..DaysInMonth(y, m)) THEN bad
      ELSE IF Len(s) # 10 /\ ~time_ok THEN bad
      ELSE IF ~(hh < 24 /\ mi < 60 /\ ss < 60 /\ oh < 24 /\ om < 60) THEN bad
      ELSE [ok |-> TRUE,
            secs |-> (((DaysFromCivil(y, m, d) - DaysFromCivil(2000, 1, 1)) * 24 + hh) * 60
                       + mi) * 60 + ss - utcoffset,
            aware |-> Len(s) = 25]

\* current_time.replace('Z', '')
RemoveZ(s) == SelectSeq(s, LAMBDA c : c # "Z")

MonthAbbr ==
  << <<"J","a","n">>, <<"F","e","b">>, <<"M","a","r">>, <<"A","p","r">>,
     <<"M","a","y">>, <<"J","u","n">>, <<"J","u","l">>, <<"A","u","g">>,
     <<"S","e","p">>, <<"O","c","t">>, <<"N","o","v">>, <<"D","e","c">> >>

TwoDigits(n) == IF n < 10 THEN <<"0">> \o StrOfNat(n) ELSE StrOfNat(n)

\* appt_dt.strftime("%b %d, %I:%M %p") of a timestamp that fromisoformat accepts
strftime_bdIMp(s) ==
  LET m == IntOf(SubSeq(s, 6, 7))
      hh == IF Len(s) >= 19 THEN IntOf(SubSeq(s, 12, 13)) ELSE 0
      mi == IF Len(s) >= 19 THEN IntOf(SubSeq(s, 15, 16)) ELSE 0
      h12 == IF hh % 12 = 0 THEN 12 ELSE hh % 12
  IN  MonthAbbr[m] \o <<" ">> \o SubSeq(s, 9, 10) \o <<",", " ">>
        \o TwoDigits(h12) \o <<":">> \o TwoDigits(mi) \o <<" ">>
        \o (IF hh < 12 THEN <<"A","M">> ELSE <<"P","M">>)

(***************************************************************************)
(* RuleEngine.                                                             *)
(***************************************************************************)
\* the reference timestamp of evaluate_rule
current_time ==
  <<"2","0","2","5","-","0","9","-","1","0","T","1","2",":","0","0",":","0","0","Z">>

\* self.data_cache['appointments'].get(appt_id): the index of the record, 0 for None
ApptIndex(data, appt_id) ==
  IF \E i \in 1..Len(data.appointments) : data.appointments[i].id = appt_id
    THEN CHOOSE i \in 1..Len(data.appointments) : data.appointments[i].id = appt_id
    ELSE 0

\* hours_until without max(0, ...)
hours_until_unclamped(start_time, now) ==
  LET current_dt == fromisoformat(RemoveZ(now))
      appt_dt == fromisoformat(start_time)
  IN  IF current_dt.ok /\ appt_dt.ok /\ appt_dt.aware = current_dt.aware
        THEN PyFloat(appt_dt.secs - current_dt.secs, 3600)
        ELSE PyNum(24)

\* hours_until: max(0, (appt_dt - current_dt).total_seconds() / 3600), or 24
\* when a timestamp does not parse (ValueError) or one datetime is aware and
\* the other is not (TypeError of the subtraction)
hours_until_of(start_time, now) ==
  LET current_dt == fromisoformat(RemoveZ(now))
      appt_dt == fromisoformat(start_time)
  IN  IF current_dt.ok /\ appt_dt.ok /\ appt_dt.aware = current_dt.aware
        THEN IF appt_dt.secs - current_dt.secs > 0
               THEN PyFloat(appt_dt.secs - current_dt.secs, 3600)
               ELSE PyNum(0)
        ELSE PyNum(24)

\* d.get(key, default) of a record of the store
DictGet(d, key, default) == IF key \in DOMAIN d THEN d[key] ELSE default

\* intake.get('status', 'INCOMPLETE') of the appointment's intake record, with
\* the status of the intake taken as is: no default for a missing record
intake_status_strict(data, appt_id) ==
  IF appt_id \in DOMAIN data.intakes THEN data.intakes[appt_id].status ELSE <<>>

\* intake.get('status', 'INCOMPLETE'), intake being the appointment's record of
\* the intakes or {'status': 'INCOMPLETE'}
intake_status_of(data, appt_id) ==
  IF appt_id \in DOMAIN data.intakes
    THEN DictGet(data.intakes[appt_id], "status", Lit.INCOMPLETE)
    ELSE Lit.INCOMPLETE

formatted_time_of(start_time) ==
  IF fromisoformat(start_time).ok
    THEN strftime_bdIMp(start_time)
    ELSE <<"y","o","u","r"," ","a","p","p","o","i","n","t","m","e","n","t"," ","t","i","m","e">>

\* [ok, raised, context]: ok is FALSE for None (unknown appointment id); raised
\* is TRUE for the KeyError of appt['patient_id'] or appt['practice_id'] on a
\* record without that key.  appt['start_time'] is read inside the two try
\* blocks, so a record without it gets the defaults.
_build_context(data, appt_id, now) ==
  LET idx == ApptIndex(data, appt_id)
  IN  IF idx = 0 THEN [ok |-> FALSE, raised |-> FALSE, context |-> <<>>]
      ELSE IF ~({"patient_id", "practice_id"} \subseteq DOMAIN data.appointments[idx])
        THEN [ok |-> FALSE, raised |-> TRUE, context |-> <<>>]
      ELSE
        LET appt == data.appointments[idx]
            has_patient == appt.patient_id \in DOMAIN data.patients
            patient == data.patients[appt.patient_id]
            has_practice == appt.practice_id \in DOMAIN data.practices
            practice == data.practices[appt.practice_id]
            has_start_time == "start_time" \in DOMAIN appt
            \* no event of the datasets has a payload, so none is related
            related_events == PyEmptyList
        IN  [ok |-> TRUE,
             raised |-> FALSE,
             context |->
               [appointment_id |-> PyStr(appt_id),
                patient_id |-> IF has_patient THEN PyStr(patient.id) ELSE PyNone,
                patient_first_name |-> PyStr(IF has_patient THEN patient.first_name ELSE <<>>),
                patient_last_name |-> PyStr(IF has_patient THEN patient.last_name ELSE <<>>),
                patient_phone |-> PyStr(IF has_patient THEN patient.phone ELSE <<>>),
                patient_email |-> PyStr(IF has_patient THEN patient.email ELSE <<>>),
                patient_language |-> PyStr(IF has_patient THEN patient.language ELSE <<>>),
                patient_dnc |-> PyBool(IF has_patient THEN patient.dnc ELSE FALSE),
                patient_comm_sms |-> PyBool(IF has_patient THEN patient.comm_prefs.sms ELSE FALSE),
                patient_comm_email |-> PyBool(IF has_patient THEN patient.comm_prefs.email ELSE FALSE),
                patient_comm_call |-> PyBool(IF has_patient THEN patient.comm_prefs.call ELSE FALSE),
                practice_name |-> PyStr(IF has_practice THEN practice.name ELSE <<>>),
                practice_timezone |-> PyStr(IF has_practice THEN practice.timezone ELSE <<>>),
                practice_phone |-> PyStr(IF has_practice THEN practice.default_sender_phone ELSE <<>>),
                practice_email |-> PyStr(IF has_practice THEN practice.reply_to_email ELSE <<>>),
                practice_domain |-> PyStr(IF has_practice THEN practice.domain ELSE <<>>),
                appointment_type |-> PyStr(DictGet(appt, "type", <<>>)),
                appointment_status |-> PyStr(DictGet(appt, "status", <<>>)),
                appointment_location |-> PyStr(DictGet(appt, "location", <<>>)),
                appointment_start_time |-> PyStr(DictGet(appt, "start_time", <<>>)),
                appointment_formatted_time |->
                  PyStr(IF has_start_time THEN formatted_time_of(appt.start_time)
                        ELSE formatted_time_of(<<>>)),
                no_show_risk |-> PyStr(DictGet(appt, "no_show_risk", <<>>)),
                intake_status |-> PyStr(intake_status_of(data, appt_id)),
                intake_last_updated |-> PyStr(<<>>),
                intake_link |-> PyStr(<<>>),
                hours_until |->
                  IF has_start_time THEN hours_until_of(appt.start_time, now) ELSE PyNum(24),
                related_events |-> related_events,
                recent_events |-> related_events]]

\* "true", "false", or "raise" when float() raises
_evaluate_condition(condition, context) ==
  LET context_value ==
        IF condition.field \in DOMAIN context THEN context[condition.field] ELSE PyNone
  IN  IF context_value.k = "none" THEN "false"
      ELSE IF condition.operator = "equals"
        THEN IF Lower(PyToStr(context_value)) = Lower(PyToStr(condition.value))
               THEN "true" ELSE "false"
      ELSE IF condition.operator = "contains"
        THEN IF Contains(Lower(PyToStr(context_value)), Lower(PyToStr(condition.value)))
               THEN "true" ELSE "false"
      ELSE IF condition.operator \in {"<=", ">="}
        THEN LET x == PyToFloat(context_value)
                 y == PyToFloat(condition.value)
             IN  IF ~x.ok \/ ~y.ok THEN "raise"
                 ELSE IF condition.operator = "<="
                   THEN (IF x.n * y.d <= y.n * x.d THEN "true" ELSE "false")
                   ELSE (IF x.n * y.d >= y.n * x.d THEN "true" ELSE "false")
      ELSE "false"

\* the name between the braces of a replacement field, looked up in the context:
\* the set of context keys spelled name (empty: KeyError)
FieldKeys(context, name) == {key \in DOMAIN context : ContextKeys[key] = name}

\* template.format(**context) from template[i] on: [ok, text]; ok is FALSE when
\* format raises (KeyError for an unknown name, ValueError for an unbalanced
\* brace, IndexError for {}); {{ and }} are the escaped braces.  Replacement
\* fields of the model's templates are plain names, without conversion or
\* format specification.
RECURSIVE FormatFrom(_, _, _)
FormatFrom(template, i, context) ==
  LET n == Len(template)
      fail == [ok |-> FALSE, text |-> <<>>]
      braces == {j \in i..n : template[j] \in {"{", "}"}}
  IN  IF braces = {} THEN [ok |-> TRUE, text |-> SubSeq(template, i, n)]
      ELSE
        LET b == MinOf(braces)
            literal == SubSeq(template, i, b - 1)
            \* the text of the field that starts at b, and where the scan goes on
            field ==
              IF b < n /\ template[b + 1] = template[b]
                THEN [ok |-> TRUE, text |-> <<template[b]>>, next |-> b + 2]
              ELSE IF template[b] = "}" THEN [ok |-> FALSE, text |-> <<>>, next |-> b]
              ELSE
                LET closes == {j \in (b + 1)..n : template[j] = "}"}
                    keys == FieldKeys(context, SubSeq(template, b + 1, MinOf(closes) - 1))
                IN  IF closes = {} \/ keys = {}
                      THEN [ok |-> FALSE, text |-> <<>>, next |-> b]
                      ELSE [ok |-> TRUE,
                            text |-> PyToStr(context[CHOOSE key \in keys : TRUE]),
                            next |-> MinOf(closes) + 1]
        IN  IF ~field.ok THEN fail
            ELSE
              LET rest == FormatFrom(template, field.next, context)
              IN  IF rest.ok
                    THEN [ok |-> TRUE, text |-> literal \o field.text \o rest.text]
                    ELSE fail

Format(template, context) == FormatFrom(template, 1, context)

\* a rendered payload; the keys a channel does not have are empty
Payload(t, to, subject, message, body, script) ==
  [type |-> t, to |-> to, subject |-> subject, message |-> message,
   body |-> body, script |-> script]

\* the payload of one action, or <<>> when rendering it raised
render_action(action, context) ==
  IF action.type = "SMS"
    THEN LET message == Format(action.template, context)
         IN  IF message.ok
               THEN <<Payload("SMS", context.patient_phone, <<>>, message.text, <<>>, <<>>)>>
               ELSE <<>>
  ELSE IF action.type = "EMAIL"
    THEN LET subject == Format(action.template_subject, context)
             body == Format(action.template, context)
         IN  IF subject.ok /\ body.ok
               THEN <<Payload("EMAIL", context.patient_email, subject.text, <<>>, body.text, <<>>)>>
               ELSE <<>>
  ELSE IF action.type = "CALL"
    THEN LET script == Format(action.template, context)
         IN  IF script.ok
               THEN <<Payload("CALL", context.patient_phone, <<>>, <<>>, <<>>, script.text)>>
               ELSE <<>>
  ELSE <<>>

\* the loop over the actions with the try around the whole loop: the first
\* action that fails to render ends it
RECURSIVE render_actions_abort(_, _)
render_actions_abort(actions, context) ==
  IF actions = <<>> \/ render_action(Head(actions), context) = <<>> THEN <<>>
  ELSE render_action(Head(actions), context) \o render_actions_abort(Tail(actions), context)

\* the loop over the actions: an action that fails to render is skipped
RECURSIVE render_actions(_, _)
render_actions(actions, context) ==
  IF actions = <<>> THEN <<>>
  ELSE render_action(Head(actions), context) \o render_actions(Tail(actions), context)

\* _generate_actions without the do-not-contact guard
_generate_actions_no_dnc(actions, context) == render_actions(actions, context)

\* _generate_actions(actions, context): nothing for a do-not-contact patient
_generate_actions(actions, context) ==
  IF PyTruthy(context.patient_dnc) THEN <<>>
  ELSE render_actions(actions, context)

RuleMatch(appointment_id, patient_id, confidence, triggered_actions) ==
  [appointment_id |-> appointment_id, patient_id |-> patient_id,
   confidence |-> confidence, triggered_actions |-> triggered_actions]

\* what a worker's future holds: kind is "none" (None), "match" or "raise"
NoResult(kind) ==
  [kind |-> kind,
   match |-> RuleMatch(<<>>, PyNone, [num |-> 0, den |-> 1], <<>>)]

\* the loop over parsed_rule['conditions']:
\* [total_confidence (tenths), matched_conditions, raised]
RECURSIVE score_conditions(_, _)
score_conditions(conditions, context) ==
  IF conditions = <<>>
    THEN [total_confidence |-> 0, matched_conditions |-> 0, raised |-> FALSE]
    ELSE
      LET r == _evaluate_condition(Head(conditions), context)
          rest == score_conditions(Tail(conditions), context)
      IN  IF r = "raise"
            THEN [total_confidence |-> 0, matched_conditions |-> 0, raised |-> TRUE]
          ELSE IF r = "true"
            THEN [total_confidence |-> Head(conditions).confidence + rest.total_confidence,
                  matched_conditions |-> 1 + rest.matched_conditions,
                  raised |-> rest.raised]
          ELSE rest

\* the confidence without the coverage factor: total_confidence / n
match_confidence_strength(total_confidence, matched_conditions, n) ==
  [num |-> total_confidence, den |-> 10 * n]

\* the confidence as the mean weight of the matched conditions:
\* total_confidence / matched_conditions
match_confidence_mean(total_confidence, matched_conditions, n) ==
  [num |-> total_confidence, den |-> 10 * matched_conditions]

\* confidence = (total_confidence / n) * (matched_conditions / n), with
\* total_confidence in tenths: the rational num / den
match_confidence(total_confidence, matched_conditions, n) ==
  [num |-> total_confidence * matched_conditions, den |-> 10 * n * n]

\* _evaluate_appointment without the test matched_conditions == 0
_evaluate_appointment_unmatched(data, appt_id, parsed_rule, now) ==
  LET built == _build_context(data, appt_id, now)
  IN  IF built.raised THEN NoResult("raise")
      ELSE IF ~built.ok THEN NoResult("none")
      ELSE
        LET context == built.context
            n == Len(parsed_rule.conditions)
            score == score_conditions(parsed_rule.conditions, context)
        IN  IF score.raised THEN NoResult("raise")
            ELSE
              [kind |-> "match",
               match |->
                 RuleMatch(appt_id,
                           context.patient_id,
                           match_confidence(score.total_confidence, score.matched_conditions, n),
                           _generate_actions(parsed_rule.actions, context))]

\* _evaluate_appointment(appt_id, parsed_rule, current_time) on the record
\* store data
\* _evaluate_appointment after the loop over the conditions
result_of_score(appt_id, parsed_rule, context, score) ==
  IF score.raised THEN NoResult("raise")
  ELSE IF score.matched_conditions = 0 THEN NoResult("none")
  ELSE
    [kind |-> "match",
     match |->
       RuleMatch(appt_id,
                 context.patient_id,
                 match_confidence(score.total_confidence, score.matched_conditions,
                                  Len(parsed_rule.conditions)),
                 _generate_actions(parsed_rule.actions, context))]

\* _evaluate_appointment that gives None for an appointment whose patient
\* does not resolve
result_in_context_of_patient(appt_id, parsed_rule, built) ==
  IF built.raised THEN NoResult("raise")
  ELSE IF ~built.ok \/ built.context.patient_id = PyNone THEN NoResult("none")
  ELSE result_of_score(appt_id, parsed_rule, built.context,
                       score_conditions(parsed_rule.conditions, built.context))

\* _evaluate_appointment after _build_context
result_in_context(appt_id, parsed_rule, built) ==
  IF built.raised THEN NoResult("raise")
  ELSE IF ~built.ok THEN NoResult("none")
  ELSE result_of_score(appt_id, parsed_rule, built.context,
                       score_conditions(parsed_rule.conditions, built.context))

_evaluate_appointment(data, appt_id, parsed_rule, now) ==
  result_in_context(appt_id, parsed_rule, _build_context(data, appt_id, now))

\* a.confidence > b.confidence
ConfGreater(a, b) == a.confidence.num * b.confidence.den > b.confidence.num * a.confidence.den

\* x inserted into a list sorted by ascending confidence: the sort without
\* reverse=True
RECURSIVE InsertAsc(_, _)
InsertAsc(sorted, x) ==
  IF sorted = <<>> THEN <<x>>
  ELSE IF ConfGreater(Head(sorted), x) THEN <<x>> \o sorted
  ELSE <<Head(sorted)>> \o InsertAsc(Tail(sorted), x)

\* x inserted into a list sorted by descending confidence, after every entry
\* whose confidence is greater than or equal to its own
RECURSIVE InsertDesc(_, _)
InsertDesc(sorted, x) ==
  IF sorted = <<>> THEN <<x>>
  ELSE IF ConfGreater(x, Head(sorted)) THEN <<x>> \o sorted
  ELSE <<Head(sorted)>> \o InsertDesc(Tail(sorted), x)

\* matches.sort(key=lambda x: x.confidence, reverse=True): a stable sort,
\* so entries of equal confidence keep their order
RECURSIVE SortDesc(_)
SortDesc(matches) ==
  IF matches = <<>> THEN <<>>
  ELSE InsertDesc(SortDesc(SubSeq(matches, 1, Len(matches) - 1)), matches[Len(matches)])

\* matches[:limit], limit >= 0
Take(matches, limit) == SubSeq(matches, 1, IF limit < Len(matches) THEN limit ELSE Len(matches))

\* a cache key made of the rule text alone
cache_key_text(rule_text, limit) == rule_text

\* cache_key = f"{rule_text}_{limit}"
cache_key(rule_text, limit) == rule_text \o <<"_">> \o StrOfInt(limit)

\* the cache entry stored before the truncation to limit
cache_put_all(rule_cache0, key, matches, limit) ==
  (key :> matches) @@ rule_cache0

\* a cache that holds the entry of the last call only
cache_put_alone(rule_cache0, key, matches, limit) ==
  (key :> Take(matches, limit))

\* self.rule_cache[cache_key] = matches[:limit]
cache_put(rule_cache0, key, matches, limit) ==
  (key :> Take(matches, limit)) @@ rule_cache0

\* the futures of the pool, one per appointment id, in submission order
submit_all(data, parsed_rule) ==
  [i \in 1..Len(data.appointments) |->
     _evaluate_appointment(data, data.appointments[i].id, parsed_rule, current_time)]

\* the loop over the futures from futures[i] on: a result is appended when it is
\* a match, the loop breaks once len(matches) >= limit * 2, and an exception of
\* a worker is raised again by future.result()
RECURSIVE collect(_, _, _, _)
collect(futures, i, matches, limit) ==
  IF i > Len(futures) THEN [raised |-> FALSE, matches |-> matches]
  ELSE IF futures[i].kind = "raise" THEN [raised |-> TRUE, matches |-> matches]
  ELSE IF futures[i].kind = "match"
    THEN LET more == Append(matches, futures[i].match)
         IN  IF Len(more) >= limit * 2
               THEN [raised |-> FALSE, matches |-> more]
               ELSE collect(futures, i + 1, more, limit)
  ELSE collect(futures, i + 1, matches, limit)

\* an appointment id that no record store has
UnknownId == <<"z","z">>

\* semantic_parse and the futures of every rule text on every dataset of the
\* model, as tables: TLC computes each entry once instead of once per call.
ParsedRules ==
  [rule_text \in RuleTexts \cup {Rule.call} \cup ScenarioTexts |-> semantic_parse(rule_text)]

Futures ==
  [data \in DataSets, rule_text \in RuleTexts |-> submit_all(data, ParsedRules[rule_text])]

ScenarioFutures ==
  [data \in ScenarioDataSets, rule_text \in ScenarioTexts |->
     submit_all(data, ParsedRules[rule_text])]

\* the futures of a call, from the table that holds its rule text
FuturesOf(data, rule_text) ==
  IF rule_text \in RuleTexts THEN Futures[data, rule_text]
  ELSE ScenarioFutures[data, rule_text]

\* One call of evaluate_rule on the record store data with the cache
\* rule_cache0: what it returns (returned, or raised), the cache it leaves,
\* what it did on the way (cache_hit, parsed, futures, stored: whether it wrote
\* an entry of the cache) and the record store it ran on.
call_outcome(data, rule_text, limit, hit, parsed, futures, raised, returned, rule_cache0, cache1) ==
  [rule_text |-> rule_text, limit |-> limit, cache_hit |-> hit, parsed |-> parsed,
   futures |-> futures, raised |-> raised, returned |-> returned,
   stored |-> cache1 # rule_cache0, data |-> data, rule_cache |-> cache1]

\* evaluate_rule from the loop over the futures on
evaluate_futures(data, rule_cache0, rule_text, limit, futures) ==
  LET got == collect(futures, 1, <<>>, limit)
      matches == SortDesc(got.matches)
  IN  IF got.raised
        THEN call_outcome(data, rule_text, limit, FALSE, TRUE, futures, TRUE, <<>>,
                          rule_cache0, rule_cache0)
        ELSE call_outcome(data, rule_text, limit, FALSE, TRUE, futures, FALSE,
                          Take(matches, limit), rule_cache0,
                          cache_put(rule_cache0, cache_key(rule_text, limit), matches, limit))

evaluate_rule(data, rule_cache0, rule_text, limit) ==
  IF cache_key(rule_text, limit) \in DOMAIN rule_cache0
    THEN call_outcome(data, rule_text, limit, TRUE, FALSE, <<>>, FALSE,
                      rule_cache0[cache_key(rule_text, limit)], rule_cache0, rule_cache0)
  ELSE IF ~ParsedRules[rule_text].ok
    THEN call_outcome(data, rule_text, limit, FALSE, TRUE, <<>>, FALSE, <<>>,
                      rule_cache0, rule_cache0)
  ELSE evaluate_futures(data, rule_cache0, rule_text, limit, FuturesOf(data, rule_text))

(***************************************************************************)
(* The state: the engine's record store and result cache, and the log of   *)
(* the calls of evaluate_rule made so far, each with what it returned.     *)
(***************************************************************************)
VARIABLES data_cache, rule_cache, calls, evaluated, contexts, tests,
          pc, request, shared_rule, tasks, gathered

\* The call of evaluate_rule in progress, when its steps are taken one at a
\* time: pc is the orchestrator's position, request its arguments,
\* shared_rule the parsed rule handed to the workers, tasks the futures in
\* submission order, each with the state of its work item, and gathered the
\* loop over the futures: the index of the future it waits for, the matches
\* appended so far, and whether future.result() raised.
pool_vars == <<pc, request, shared_rule, tasks, gathered>>

vars == <<data_cache, rule_cache, calls, evaluated, contexts, tests, pool_vars>>

\* no call in progress
PoolIdle ==
  /\ pc = "idle"
  /\ request = [rule_text |-> <<>>, limit |-> 0]
  /\ shared_rule = NoRule
  /\ tasks = <<>>
  /\ gathered = [next |-> 1, matches |-> <<>>, raised |-> FALSE]

\* the record of a call: its arguments, the record store it ran on, what it
\* did and what it returned
CallOf(r) ==
  [rule_text |-> r.rule_text, limit |-> r.limit, data |-> r.data,
   cache_hit |-> r.cache_hit, parsed |-> r.parsed, futures |-> r.futures,
   stored |-> r.stored, raised |-> r.raised, returned |-> r.returned]

\* RuleEngine.__init__: empty rule cache, then load_data()
Init ==
  /\ data_cache \in DataSets
  /\ rule_cache = <<>>
  /\ calls = <<>>
  /\ evaluated = <<>>
  /\ contexts = <<>>
  /\ tests = <<>>
  /\ PoolIdle

\* engine.evaluate_rule(rule_text, limit)
\* the engine after a call of outcome r
Called(r) ==
  /\ calls' = Append(calls, CallOf(r))
  /\ rule_cache' = r.rule_cache

EvaluateRule ==
  \E rule_text \in RuleTexts, limit \in Limits :
    /\ Len(calls) < MaxCalls
    /\ Called(evaluate_rule(data_cache, rule_cache, rule_text, limit))
    /\ UNCHANGED <<data_cache, evaluated, contexts, tests, pool_vars>>

Next == EvaluateRule

Spec == Init /\ [][Next]_vars

(***************************************************************************)
(* The engine with load_data() called again between calls: the record      *)
(* store is replaced by the files as they are then, here one of three      *)
(* datasets, and the rule cache is left as it is.                          *)
(***************************************************************************)
ReloadDataSets ==
  {LoadedData(<<>>),
   LoadedData(<<Profile.oncology, Profile.mri, Profile.pt>>),
   LoadedData(<<Profile.mri, Profile.pt, Profile.oncology>>)}

InitReload ==
  /\ data_cache \in ReloadDataSets
  /\ rule_cache = <<>>
  /\ calls = <<>>
  /\ evaluated = <<>>
  /\ contexts = <<>>
  /\ tests = <<>>
  /\ PoolIdle

LoadData ==
  /\ data_cache' \in ReloadDataSets \ {data_cache}
  /\ UNCHANGED <<rule_cache, calls, evaluated, contexts, tests, pool_vars>>

NextReload == EvaluateRule \/ LoadData

SpecReload == InitReload /\ [][NextReload]_vars

(***************************************************************************)
(* _evaluate_appointment on its own: the engine holds a record store of    *)
(* two appointments, and a parsed rule is evaluated on one appointment at  *)
(* a time; evaluated is the log of these evaluations.                      *)
(***************************************************************************)
InitAppointment ==
  /\ data_cache \in PairDataSets
  /\ rule_cache = <<>>
  /\ calls = <<>>
  /\ evaluated = <<>>
  /\ contexts = <<>>
  /\ tests = <<>>
  /\ PoolIdle

\* the log after the evaluation of a parsed rule on an appointment, built
\* being the context _evaluate_appointment got from _build_context
Evaluated(rule_text, appt_id, parsed_rule, built) ==
  /\ parsed_rule.ok
  /\ evaluated' =
       Append(evaluated,
              [rule_text |-> rule_text, appt_id |-> appt_id, built |-> built,
               result |-> result_in_context(appt_id, parsed_rule, built)])

\* the id of appointment i of a record store; UnknownId for i = 0
IdAt(data, i) == IF i = 0 THEN UnknownId ELSE data.appointments[i].id

\* self._evaluate_appointment(appt_id, parsed_rule, current_time), appt_id
\* being the id of an appointment of the record store or an unknown id
EvaluateAppointment ==
  \E rule_text \in RuleTexts \cup {Rule.call}, i \in 0..Len(data_cache.appointments) :
    /\ Len(evaluated) < MaxCalls
    /\ Evaluated(rule_text, IdAt(data_cache, i), ParsedRules[rule_text],
                 _build_context(data_cache, IdAt(data_cache, i), current_time))
    /\ UNCHANGED <<data_cache, rule_cache, calls, contexts, tests, pool_vars>>

NextAppointment == EvaluateAppointment

SpecAppointment == InitAppointment /\ [][NextAppointment]_vars

(***************************************************************************)
(* The scenarios: evaluate_rule with the rule texts of ScenarioTexts on a   *)
(* record store of two appointments that may hold a malformed record or    *)
(* one whose patient and practice are unknown.                             *)
(***************************************************************************)
InitScenario ==
  /\ data_cache \in ScenarioDataSets
  /\ rule_cache = <<>>
  /\ calls = <<>>
  /\ evaluated = <<>>
  /\ contexts = <<>>
  /\ tests = <<>>
  /\ PoolIdle

EvaluateScenario ==
  \E rule_text \in ScenarioTexts, limit \in ScenarioLimits :
    /\ Len(calls) < MaxCalls
    /\ Called(evaluate_rule(data_cache, rule_cache, rule_text, limit))
    /\ UNCHANGED <<data_cache, evaluated, contexts, tests, pool_vars>>

NextScenario == EvaluateScenario

SpecScenario == InitScenario /\ [][NextScenario]_vars

(***************************************************************************)
(* _build_context and _evaluate_condition on their own.  contexts is the   *)
(* log of the calls of _build_context, with any appointment id and         *)
(* reference timestamp; tests is the log of the calls of                   *)
(* _evaluate_condition, each on the context built last.                    *)
(***************************************************************************)
\* reference timestamps: the one of evaluate_rule, one that does not parse,
\* and one with a UTC offset
Timestamps ==
  {current_time, <<"n","o","w">>, <<"2","0","2","5","-","0","9","-","1","0","T","1","2",":","0","0",":","0","0","+","0","0",":","0","0">>}

\* conditions as the parser builds them, and three it does not build: on a
\* field that no context has, and numeric comparisons of a field that holds
\* text
Conditions ==
  {ParsedCondition("status", "intake_status", "equals", PyStr(Lit.INCOMPLETE), 8),
   ParsedCondition("status", "intake_status", "equals", PyStr(Lit.COMPLETE), 8),
   ParsedCondition("time_based", "hours_until", "<=", PyNum(24), 8),
   ParsedCondition("status", "insurance_status", "equals", PyStr(Lit.COMPLETE), 8),
   ParsedCondition("time_based", "appointment_type", "<=", PyNum(24), 8),
   ParsedCondition("time_based", "patient_first_name", ">=", PyNum(24), 8)}

\* the record stores on which contexts are built
ContextDataSets ==
  {LoadedData(<<Profile.oncology, Profile.walkin>>),
   LoadedData(<<Profile.mri, Profile.orphan>>),
   LoadedData(<<Profile.pt, Profile.ortho>>),
   Malformed(LoadedData(<<Profile.oncology, Profile.walkin>>), 1, {"start_time"}),
   Malformed(LoadedData(<<Profile.oncology, Profile.walkin>>), 2, {"patient_id"}),
   Malformed(LoadedData(<<Profile.mri, Profile.orphan>>), 1, {"practice_id"})}

InitContext ==
  /\ data_cache \in ContextDataSets
  /\ rule_cache = <<>>
  /\ calls = <<>>
  /\ evaluated = <<>>
  /\ contexts = <<>>
  /\ tests = <<>>
  /\ PoolIdle

\* self._build_context(appt_id, current_time)
BuildContext ==
  \E i \in 0..Len(data_cache.appointments), now \in Timestamps :
    /\ Len(contexts) + Len(tests) <= MaxCalls
    /\ contexts' =
         Append(contexts,
                [appt_id |-> IdAt(data_cache, i),
                 now |-> now,
                 built |-> _build_context(data_cache, IdAt(data_cache, i), now)])
    /\ UNCHANGED <<data_cache, rule_cache, calls, evaluated, tests, pool_vars>>

\* self._evaluate_condition(condition, context), context being the one built last
EvaluateCondition ==
  \E condition \in Conditions :
    /\ Len(contexts) + Len(tests) <= MaxCalls
    /\ contexts # <<>>
    /\ contexts[Len(contexts)].built.ok
    /\ tests' =
         Append(tests,
                [condition |-> condition,
                 appt_id |-> contexts[Len(contexts)].appt_id,
                 context |-> contexts[Len(contexts)].built.context,
                 result |-> _evaluate_condition(condition,
                                                contexts[Len(contexts)].built.context)])
    /\ UNCHANGED <<data_cache, rule_cache, calls, evaluated, contexts, pool_vars>>

NextContext == BuildContext \/ EvaluateCondition

SpecContext == InitContext /\ [][NextContext]_vars

(***************************************************************************)
(* evaluate_rule step by step, with the workers of its ThreadPoolExecutor. *)
(* The orchestrator checks the cache, parses, submits one task per         *)
(* appointment, waits for the futures in submission order, leaves the with *)
(* block (which joins the pool), sorts, stores and returns.  A task is     *)
(* queued when submitted, running once a worker has taken it, done when    *)
(* _evaluate_appointment has returned or raised; the workers take the      *)
(* queued tasks first in, first out, at most max_workers at a time, and    *)
(* finish them in any order.                                               *)
(***************************************************************************)
\* ThreadPoolExecutor(max_workers=4)
max_workers == 4

\* the rule texts of the stepwise calls: two conditions, one, and a text
\* that does not parse
PoolTexts == {Rule.two, Rule.high_call, Rule.nobound}

\* the limits of the stepwise calls: with limit 1 the loop over the futures
\* breaks at the second match
PoolLimits == {1, MaxLimit}

\* the record stores of the stepwise calls: one appointment more than the
\* pool has workers, as they are and with a record that makes its worker raise
PoolDataSets ==
  LET profiles ==
        <<Profile.oncology, Profile.mri, Profile.pt, Profile.walkin, Profile.oncology>>
  IN  {LoadedData(SubSeq(profiles, 1, max_workers + 1)),
       Malformed(LoadedData(SubSeq(profiles, 1, max_workers + 1)), 3, {"patient_id"})}

\* what _evaluate_appointment returns or raises for each appointment of each
\* record store, computed once
PoolFutures ==
  [data \in PoolDataSets, rule_text \in PoolTexts |->
     submit_all(data, ParsedRules[rule_text])]

\* future.result() returns at once, whether the task is done or not
ready_at_once(task) == TRUE

\* future.result() blocks until the task is done
ready(task) == task.state = "done"

\* leaving the with block without waiting for the workers
joined_at_once(work) == TRUE

\* ThreadPoolExecutor.__exit__: shutdown(wait=True) returns when every
\* submitted task is done
joined(work) == \A i \in DOMAIN work : work[i].state = "done"

InitPool ==
  /\ data_cache \in PoolDataSets
  /\ rule_cache = <<>>
  /\ calls = <<>>
  /\ evaluated = <<>>
  /\ contexts = <<>>
  /\ tests = <<>>
  /\ PoolIdle

\* the call returns (or raises): it is logged and nothing is in progress
Returned(r) ==
  /\ Called(r)
  /\ pc' = "idle"
  /\ request' = [rule_text |-> <<>>, limit |-> 0]
  /\ shared_rule' = NoRule
  /\ tasks' = <<>>
  /\ gathered' = [next |-> 1, matches |-> <<>>, raised |-> FALSE]

\* if cache_key in self.rule_cache: return self.rule_cache[cache_key]
CacheHit ==
  \E rule_text \in PoolTexts, limit \in PoolLimits :
    /\ pc = "idle"
    /\ Len(calls) < MaxCalls
    /\ cache_key(rule_text, limit) \in DOMAIN rule_cache
    /\ Called(call_outcome(data_cache, rule_text, limit, TRUE, FALSE, <<>>, FALSE,
                           rule_cache[cache_key(rule_text, limit)], rule_cache, rule_cache))
    /\ UNCHANGED <<data_cache, evaluated, contexts, tests, pool_vars>>

\* the cache has no entry for the call: on to the parser
CacheMiss ==
  \E rule_text \in PoolTexts, limit \in PoolLimits :
    /\ pc = "idle"
    /\ Len(calls) < MaxCalls
    /\ cache_key(rule_text, limit) \notin DOMAIN rule_cache
    /\ pc' = "parse"
    /\ request' = [rule_text |-> rule_text, limit |-> limit]
    /\ UNCHANGED <<data_cache, rule_cache, calls, evaluated, contexts, tests,
                   shared_rule, tasks, gathered>>

\* parsed_rule = self.parser.semantic_parse(rule_text); return [] for None;
\* otherwise the with block is entered, with nothing to submit when the
\* record store has no appointment
Parse ==
  /\ pc = "parse"
  /\ IF ~ParsedRules[request.rule_text].ok
       THEN Returned(call_outcome(data_cache, request.rule_text, request.limit, FALSE, TRUE,
                                  <<>>, FALSE, <<>>, rule_cache, rule_cache))
       ELSE /\ shared_rule' = ParsedRules[request.rule_text]
            /\ pc' = IF Len(data_cache.appointments) = 0 THEN "exit" ELSE "submit"
            /\ UNCHANGED <<rule_cache, calls, request, tasks, gathered>>
  /\ UNCHANGED <<data_cache, evaluated, contexts, tests>>

\* future = executor.submit(self._evaluate_appointment, appt_id, parsed_rule,
\* current_time); futures.append(future)
Submit ==
  /\ pc = "submit"
  /\ tasks' = Append(tasks, [state |-> "queued", result |-> NoResult("none")])
  /\ pc' = IF Len(tasks) + 1 = Len(data_cache.appointments) THEN "collect" ELSE "submit"
  /\ UNCHANGED <<data_cache, rule_cache, calls, evaluated, contexts, tests,
                 request, shared_rule, gathered>>

\* a worker takes the oldest queued task
WorkerTakes ==
  \E i \in DOMAIN tasks :
    /\ tasks[i].state = "queued"
    /\ \A j \in 1..(i - 1) : tasks[j].state # "queued"
    /\ Cardinality({j \in DOMAIN tasks : tasks[j].state = "running"}) < max_workers
    /\ tasks' = [tasks EXCEPT ![i].state = "running"]
    /\ UNCHANGED <<data_cache, rule_cache, calls, evaluated, contexts, tests,
                   pc, request, shared_rule, gathered>>

\* a worker's _evaluate_appointment returns or raises: the future is done.
\* It reads the record store and the parsed rule and writes its future only.
WorkerFinishes ==
  \E i \in DOMAIN tasks :
    /\ tasks[i].state = "running"
    /\ tasks' = [tasks EXCEPT ![i] = [state |-> "done",
                                 result |-> PoolFutures[data_cache, request.rule_text][i]]]
    /\ UNCHANGED <<data_cache, rule_cache, calls, evaluated, contexts, tests,
                   pc, request, shared_rule, gathered>>

\* for future in futures: result = future.result(); if result:
\* matches.append(result); if len(matches) >= limit * 2: break.  The loop
\* waits for the future at gathered.next; an exception of its worker is
\* raised again and leaves the with block, as do the break and the end of
\* the list.
Collect ==
  /\ pc = "collect"
  /\ ready(tasks[gathered.next])
  /\ LET result == tasks[gathered.next].result
     IN  IF result.kind = "raise"
           THEN /\ gathered' = [gathered EXCEPT !.raised = TRUE]
                /\ pc' = "exit"
         ELSE IF result.kind = "match"
           THEN /\ gathered' = [gathered EXCEPT !.next = @ + 1,
                                                !.matches = Append(@, result.match)]
                /\ pc' = IF Len(gathered.matches) + 1 >= request.limit * 2
                              \/ gathered.next = Len(tasks)
                           THEN "exit" ELSE "collect"
         ELSE /\ gathered' = [gathered EXCEPT !.next = @ + 1]
              /\ pc' = IF gathered.next = Len(tasks) THEN "exit" ELSE "collect"
  /\ UNCHANGED <<data_cache, rule_cache, calls, evaluated, contexts, tests,
                 request, shared_rule, tasks>>

\* the end of the with block, then matches.sort(...), the store into
\* rule_cache and the return; an exception of future.result() leaves the
\* with block the same way and then leaves evaluate_rule
Leave ==
  /\ pc = "exit"
  /\ joined(tasks)
  /\ IF gathered.raised
       THEN Returned(call_outcome(data_cache, request.rule_text, request.limit, FALSE, TRUE,
                                  [i \in DOMAIN tasks |-> tasks[i].result], TRUE, <<>>,
                                  rule_cache, rule_cache))
       ELSE Returned(call_outcome(data_cache, request.rule_text, request.limit, FALSE, TRUE,
                                  [i \in DOMAIN tasks |-> tasks[i].result], FALSE,
                                  Take(SortDesc(gathered.matches), request.limit),
                                  rule_cache,
                                  cache_put(rule_cache,
                                            cache_key(request.rule_text, request.limit),
                                            SortDesc(gathered.matches), request.limit)))
  /\ UNCHANGED <<data_cache, evaluated, contexts, tests>>

NextPool ==
  \/ CacheHit
  \/ CacheMiss
  \/ Parse
  \/ Submit
  \/ WorkerTakes
  \/ WorkerFinishes
  \/ Collect
  \/ Leave

SpecPool == InitPool /\ [][NextPool]_vars

(***************************************************************************)
(* The pattern-table engines (built_in_rules_engine.py and                 *)
(* syntax_rules_engine.py, whose simple_datetime_diff is the same text).   *)
(* build_context calls simple_datetime_diff(current_time_str,              *)
(* appt['start_time']); tests is the log of these calls.                   *)
(***************************************************************************)
\* max(0, hours from current_str to appt_str), or 24.  current_clean is
\* current_str.replace('Z', '').split('+')[0].split('-')[0]: what precedes the
\* first "+" and the first "-".  A string that fromisoformat rejects
\* (ValueError) and the subtraction of an aware and a naive datetime
\* (TypeError) are caught and give 24.
simple_datetime_diff(current_str, appt_str) ==
  LET Before(s, c) ==
        IF \E i \in 1..Len(s) : s[i] = c
          THEN SubSeq(s, 1, MinOf({i \in 1..Len(s) : s[i] = c}) - 1)
          ELSE s
      HasT(s) == \E i \in 1..Len(s) : s[i] = "T"
      current_clean == Before(Before(RemoveZ(current_str), "+"), "-")
      current_dt == fromisoformat(current_clean)
      appt_dt == fromisoformat(appt_str)
  IN  IF ~HasT(current_clean) THEN PyNum(24)
      ELSE IF ~current_dt.ok THEN PyNum(24)
      ELSE IF ~HasT(appt_str) THEN PyNum(24)
      ELSE IF ~appt_dt.ok THEN PyNum(24)
      ELSE IF appt_dt.aware # current_dt.aware THEN PyNum(24)
      ELSE IF appt_dt.secs - current_dt.secs > 0
        THEN PyFloat(appt_dt.secs - current_dt.secs, 3600)
      ELSE PyNum(0)

\* the reference timestamps given to simple_datetime_diff: those of
\* Timestamps, and two in the basic format, 20250910T120000Z and
\* 20250911T180000
DiffTimestamps ==
  Timestamps
    \cup {<<"2","0","2","5","0","9","1","0","T","1","2","0","0","0","0","Z">>,
          <<"2","0","2","5","0","9","1","1","T","1","8","0","0","0","0">>}

InitDiff ==
  /\ data_cache \in PairDataSets
  /\ rule_cache = <<>>
  /\ calls = <<>>
  /\ evaluated = <<>>
  /\ contexts = <<>>
  /\ tests = <<>>
  /\ PoolIdle

\* hours_until = simple_datetime_diff(current_time_str, appt['start_time'])
DatetimeDiff ==
  \E i \in DOMAIN data_cache.appointments, current_str \in DiffTimestamps :
    /\ Len(tests) < MaxCalls
    /\ tests' =
         Append(tests,
                [current_str |-> current_str,
                 appt_str |-> data_cache.appointments[i].start_time,
                 hours |-> simple_datetime_diff(current_str,
                                                data_cache.appointments[i].start_time)])
    /\ UNCHANGED <<data_cache, rule_cache, calls, evaluated, contexts, pool_vars>>

NextDiff == DatetimeDiff

SpecDiff == InitDiff /\ [][NextDiff]_vars

(***************************************************************************)
(* The package engine (floe_rules_engine.rules_engine).  A rule is a dict  *)
(* given at run time: conditions (key -> expected value, and an optional   *)
(* "logic"), actions and templates; an event is a dict with type,          *)
(* occurred_at and payload.  The engine keeps nothing between calls, so    *)
(* one call is made on each of its data sets: tests holds a call of        *)
(* match_conditions, evaluated a call of evaluate_rule_over_events.  Its   *)
(* data sets are those of data_cache.                                      *)
(***************************************************************************)
\* utils.parse_iso: datetime.fromisoformat(s.replace("Z", "+00:00")), None
\* (ok = FALSE) for a string that does not parse and for a value that is no
\* string (AttributeError), both caught
parse_iso(s) ==
  IF s.k # "str" THEN [ok |-> FALSE, secs |-> 0, aware |-> FALSE]
  ELSE LET RECURSIVE Replaced(_)
           Replaced(t) ==
             IF t = <<>> THEN <<>>
             ELSE (IF Head(t) = "Z" THEN <<"+","0","0",":","0","0">> ELSE <<Head(t)>>) \o Replaced(Tail(t))
       IN  fromisoformat(Replaced(s.s))

\* utils.hours_until: None when a datetime is None, else
\* (future_dt - now).total_seconds() / 3600.0; the subtraction of an aware
\* and a naive datetime raises TypeError, which nothing here catches
hours_until(now, future_dt) ==
  IF ~now.ok \/ ~future_dt.ok THEN [kind |-> "none", n |-> 0, d |-> 1]
  ELSE IF now.aware # future_dt.aware THEN [kind |-> "raise", n |-> 0, d |-> 1]
  ELSE [kind |-> "float", n |-> future_dt.secs - now.secs, d |-> 3600]

\* The entities of an event (lines 42-54 and 109-121): appt is the index of
\* the appointment named by the payload, 0 for None; patient and practice
\* are ids that resolve, or <<>> for None.  appt["patient_id"] and
\* appt["practice_id"] raise KeyError for a record without the key.
resolved(event, ctx) ==
  LET payload == DictGet(event, "payload", <<>>)
      appt == IF "appointment_id" \in DOMAIN payload
                THEN ApptIndex(ctx, payload.appointment_id) ELSE 0
      known(table, id) == IF id \in DOMAIN table THEN id ELSE <<>>
  IN  IF appt # 0
        THEN IF {"patient_id", "practice_id"} \subseteq DOMAIN ctx.appointments[appt]
               THEN [raised |-> FALSE, appt |-> appt,
                     patient |-> known(ctx.patients, ctx.appointments[appt].patient_id),
                     practice |-> known(ctx.practices, ctx.appointments[appt].practice_id)]
               ELSE [raised |-> TRUE, appt |-> appt, patient |-> <<>>, practice |-> <<>>]
        ELSE [raised |-> FALSE, appt |-> 0,
              patient |-> known(ctx.patients, DictGet(payload, "patient_id", <<>>)),
              practice |-> known(ctx.practices, DictGet(payload, "practice_id", <<>>))]

\* test(key, expected) of match_conditions, for the keys event.type,
\* intake_status, appointment_hours_until, appointment.status,
\* appointment.no_show_risk and patient.dnc: "true" for a truthy result,
\* "false" for a falsy one, "raise" for an exception.  found is
\* resolved(event, ctx).
test(key, expected, event, found, ctx) ==
  LET appt == ctx.appointments[found.appt]
      truth(b) == IF b THEN "true" ELSE "false"
      field(name) == IF name \in DOMAIN appt THEN PyStr(appt[name]) ELSE PyNone
  IN  CASE key = "event.type" ->
             truth(DictGet(event, "type", PyNone) = expected)
        [] key = "intake_status" ->
             truth(/\ found.appt # 0
                   /\ appt.id \in DOMAIN ctx.intakes
                   /\ PyStr(ctx.intakes[appt.id].status) = expected)
        [] key = "appointment_hours_until" ->
             IF found.appt = 0 THEN "false"
             ELSE IF "start_time" \notin DOMAIN appt THEN "raise"
             ELSE LET hrs == hours_until(parse_iso(DictGet(event, "occurred_at", PyNone)),
                                         parse_iso(PyStr(appt.start_time)))
                      target == PyToFloat(expected)
                  IN  IF hrs.kind = "raise" THEN "raise"
                      ELSE IF ~target.ok THEN "false"
                      ELSE truth(/\ hrs.kind = "float"
                                 /\ 0 <= hrs.n
                                 /\ hrs.n * target.d <= target.n * hrs.d)
        [] key = "appointment.status" ->
             truth(found.appt # 0 /\ field("status") = expected)
        [] key = "appointment.no_show_risk" ->
             truth(found.appt # 0 /\ field("no_show_risk") = expected)
        [] key = "patient.dnc" ->
             truth(/\ found.patient # <<>>
                   /\ ctx.patients[found.patient].dnc = PyTruthy(expected))

\* match_conditions with ANY for a rule that gives no logic
match_conditions_default_any(rule, event, ctx) ==
  LET conds == DictGet(rule, "conditions", <<>>)
      logic == DictGet(conds, "logic", PyStr(<<"A","N","Y">>))
      found == resolved(event, ctx)
      checks == {test(k, conds[k], event, found, ctx) : k \in DOMAIN conds \ {"logic"}}
  IN  IF logic.k # "str" \/ found.raised \/ "raise" \in checks THEN "raise"
      ELSE IF [i \in DOMAIN logic.s |-> UpperChar(logic.s[i])] = <<"A","L","L">>
        THEN (IF checks \subseteq {"true"} THEN "true" ELSE "false")
      ELSE (IF "true" \in checks THEN "true" ELSE "false")

\* RulesEngine.match_conditions: logic = conds.get("logic", "ALL").upper();
\* every key but "logic" is tested; all(checks) for ALL, any(checks)
\* otherwise.  "raise" when .upper() is called on a value that is no string
\* or when the entities or a test raise.
match_conditions(rule, event, ctx) ==
  LET conds == DictGet(rule, "conditions", <<>>)
      logic == DictGet(conds, "logic", PyStr(<<"A","L","L">>))
      found == resolved(event, ctx)
      checks == {test(k, conds[k], event, found, ctx) : k \in DOMAIN conds \ {"logic"}}
  IN  IF logic.k # "str" \/ found.raised \/ "raise" \in checks THEN "raise"
      ELSE IF [i \in DOMAIN logic.s |-> UpperChar(logic.s[i])] = <<"A","L","L">>
        THEN (IF checks \subseteq {"true"} THEN "true" ELSE "false")
      ELSE (IF "true" \in checks THEN "true" ELSE "false")

\* Lines 126-170 of render_action_messages: one line per action of the
\* rule.  A line "Triggered SMS > To: {to}\nMessage: {msg}" is the record
\* [kind |-> "Triggered SMS", to, text]; likewise Email (the body; the
\* subject of a template that is a string is "") and Call; any other action
\* gives "UNKNOWN ACTION".  render_template replaces {{key}} by the value of
\* each key of data in turn and gives "" for no template.
action_messages(rule, found, ctx) ==
  LET patient == ctx.patients[found.patient]
      practice == ctx.practices[found.practice]
      data ==
        << <<<<"p","a","t","i","e","n","t","_","n","a","m","e">>,
             IF found.patient # <<>>
               THEN patient.first_name \o <<" ">> \o patient.last_name ELSE <<>> >>,
           <<<<"a","p","p","o","i","n","t","m","e","n","t","_","t","i","m","e">>,
             IF found.appt # 0
               THEN DictGet(ctx.appointments[found.appt], "start_time", <<>>) ELSE <<>> >>,
           <<<<"p","r","a","c","t","i","c","e","_","n","a","m","e">>, IF found.practice # <<>> THEN practice.name ELSE <<>> >>,
           <<<<"p","r","a","c","t","i","c","e","_","d","o","m","a","i","n">>, IF found.practice # <<>> THEN practice.domain ELSE <<>> >>,
           <<<<"r","e","p","l","y","_","t","o","_","e","m","a","i","l">>,
             IF found.practice # <<>> THEN practice.reply_to_email ELSE <<>> >>,
           <<<<"s","e","n","d","e","r","_","p","h","o","n","e">>,
             IF found.practice # <<>> THEN practice.default_sender_phone ELSE <<>> >>,
           <<<<"i","n","t","a","k","e","_","l","i","n","k">>, <<>> >> >>
      RECURSIVE Replace(_, _, _)
      Replace(s, old, new) ==
        IF s = <<>> THEN <<>>
        ELSE IF StartsAt(s, 1, old)
          THEN new \o Replace(SubSeq(s, Len(old) + 1, Len(s)), old, new)
        ELSE <<Head(s)>> \o Replace(Tail(s), old, new)
      RECURSIVE Rendered(_, _)
      Rendered(out, k) ==
        IF k > Len(data) THEN out
        ELSE Rendered(Replace(out, <<"{", "{">> \o data[k][1] \o <<"}", "}">>, data[k][2]),
                      k + 1)
      render_template(tpl) == Rendered(tpl, 1)
      templates == DictGet(rule, "templates", <<>>)
      tpl(action, default) ==
        IF action \in DOMAIN templates /\ templates[action] # <<>>
          THEN templates[action] ELSE default
      upper(action) == [i \in DOMAIN action |-> UpperChar(action[i])]
      phone == IF found.patient # <<>> THEN patient.phone ELSE <<>>
      email == IF found.patient # <<>> THEN patient.email ELSE <<>>
      line(action) ==
        CASE upper(action) = <<"S","M","S">> ->
               [kind |-> "Triggered SMS", to |-> phone,
                text |-> render_template(tpl(action, <<"H","i"," ","{","{","p","a","t","i","e","n","t","_","n","a","m","e","}","}">>))]
          [] upper(action) = <<"E","M","A","I","L">> ->
               [kind |-> "Triggered Email", to |-> email,
                text |-> render_template(tpl(action, <<>>))]
          [] upper(action) = <<"C","A","L","L">> ->
               [kind |-> "Triggered Call", to |-> phone,
                text |-> render_template(tpl(action, <<"C","a","l","l"," ","{","{","p","a","t","i","e","n","t","_","n","a","m","e","}","}"," ","a","b","o","u","t"," ","t","h","e","i","r"," ","a","p","p","o","i","n","t","m","e","n","t",".">>))]
          [] OTHER -> [kind |-> "UNKNOWN ACTION", to |-> <<>>, text |-> action]
      actions == DictGet(rule, "actions", <<>>)
  IN  [raised |-> FALSE, lines |-> [i \in DOMAIN actions |-> line(actions[i])]]

\* render_action_messages without the guardrail of lines 124-125
render_action_messages_unguarded(rule, event, ctx) ==
  IF resolved(event, ctx).raised THEN [raised |-> TRUE, lines |-> <<>>]
  ELSE action_messages(rule, resolved(event, ctx), ctx)

\* RulesEngine.render_action_messages: for a patient flagged dnc the one
\* line "SKIPPED (DNC) for patient {id}", else the lines of the actions
render_action_messages(rule, event, ctx) ==
  IF resolved(event, ctx).raised THEN [raised |-> TRUE, lines |-> <<>>]
  ELSE IF /\ resolved(event, ctx).patient # <<>>
          /\ ctx.patients[resolved(event, ctx).patient].dnc
    THEN [raised |-> FALSE,
          lines |-> << [kind |-> "SKIPPED (DNC)", to |-> resolved(event, ctx).patient,
                        text |-> <<>>] >>]
  ELSE action_messages(rule, resolved(event, ctx), ctx)

\* RulesEngine.evaluate_rule_over_events: the lines of the events that
\* match, in order; an exception of match_conditions or of
\* render_action_messages leaves the call
RECURSIVE evaluate_rule_over_events(_, _, _)
evaluate_rule_over_events(rule, events, ctx) ==
  IF events = <<>> THEN [raised |-> FALSE, logs |-> <<>>]
  ELSE LET matched == match_conditions(rule, Head(events), ctx)
           first == IF matched = "true"
                      THEN render_action_messages(rule, Head(events), ctx)
                      ELSE [raised |-> FALSE, lines |-> <<>>]
           rest == evaluate_rule_over_events(rule, Tail(events), ctx)
       IN  IF matched = "raise" \/ first.raised \/ rest.raised
             THEN [raised |-> TRUE, logs |-> <<>>]
             ELSE [raised |-> FALSE, logs |-> first.lines \o rest.logs]

\* The rules given to the package engine: one condition under the default
\* logic, two conditions under ANY and under ALL, no condition key under the
\* default, under ALL and under ANY, the hours until the appointment with a
\* number and with a word, and a rule that names the event type.
PackageRules ==
  {[conditions |-> ("appointment.no_show_risk" :> PyStr(Lit.high)),
    actions |-> <<<<"S","M","S">>, <<"c","a","l","l">>>>,
    templates |-> (<<"S","M","S">> :> <<"H","i"," ","{","{","p","a","t","i","e","n","t","_","n","a","m","e","}","}",","," ","s","e","e"," ","y","o","u"," ","a","t"," ","{","{","a","p","p","o","i","n","t","m","e","n","t","_","t","i","m","e","}","}">>)],
   [conditions |-> ("logic" :> PyStr(<<"a","n","y">>)) @@ ("appointment.no_show_risk" :> PyStr(Lit.high))
                     @@ ("intake_status" :> PyStr(Lit.COMPLETE)),
    actions |-> <<<<"E","M","A","I","L">>>>],
   [conditions |-> ("logic" :> PyStr(<<"A","L","L">>)) @@ ("appointment.no_show_risk" :> PyStr(Lit.high))
                     @@ ("intake_status" :> PyStr(Lit.COMPLETE)),
    actions |-> <<<<"S","M","S">>>>],
   [actions |-> <<<<"S","M","S">>, <<"F","A","X">>>>],
   [conditions |-> ("logic" :> PyStr(<<"A","L","L">>)), actions |-> <<<<"C","A","L","L">>>>],
   [conditions |-> ("logic" :> PyStr(<<"A","N","Y">>)), actions |-> <<<<"S","M","S">>>>],
   [conditions |-> ("appointment_hours_until" :> PyNum(24)), actions |-> <<<<"C","A","L","L">>>>],
   [conditions |-> ("logic" :> PyStr(<<"A","N","Y">>)) @@ ("appointment_hours_until" :> PyStr(Lit.soon))
                     @@ ("patient.dnc" :> PyBool(TRUE)),
    actions |-> <<<<"S","M","S">>>>],
   [conditions |-> ("event.type" :> PyStr(<<"a","p","p","o","i","n","t","m","e","n","t",".","u","p","d","a","t","e","d">>)) @@ ("appointment.status" :> PyStr(<<"S","C","H","E","D","U","L","E","D">>)),
    actions |-> <<<<"E","M","A","I","L">>>>]}

\* The events: of type appointment.updated, at 2025-09-10T12:00:00 written
\* without offset, with Z, as a word or not at all, about appointment a1,
\* a2, an appointment that no data set has, or patient p2; and an event
\* that has a type only.
PackageEvents ==
  {[type |-> PyStr(<<"a","p","p","o","i","n","t","m","e","n","t",".","u","p","d","a","t","e","d">>), occurred_at |-> PyStr(at), payload |-> payload] :
     at \in {<<"2","0","2","5","-","0","9","-","1","0","T","1","2",":","0","0",":","0","0">>, current_time},
     payload \in {[appointment_id |-> ApptId(1)], [appointment_id |-> ApptId(2)],
                  [patient_id |-> <<"p","2">>]}}
    \cup {[type |-> PyStr(<<"a","p","p","o","i","n","t","m","e","n","t",".","u","p","d","a","t","e","d">>), occurred_at |-> PyStr(<<"n","o","w">>),
           payload |-> [appointment_id |-> ApptId(1)]],
          [type |-> PyStr(<<"a","p","p","o","i","n","t","m","e","n","t",".","u","p","d","a","t","e","d">>), payload |-> [appointment_id |-> ApptId(2)]],
          [type |-> PyStr(<<"a","p","p","o","i","n","t","m","e","n","t",".","u","p","d","a","t","e","d">>), occurred_at |-> PyStr(current_time),
           payload |-> [appointment_id |-> UnknownId]],
          [type |-> PyStr(<<"c","a","l","l",".","m","i","s","s","e","d">>)]}

InitPackage ==
  /\ data_cache \in ScenarioDataSets
  /\ rule_cache = <<>>
  /\ calls = <<>>
  /\ evaluated = <<>>
  /\ contexts = <<>>
  /\ tests = <<>>
  /\ PoolIdle

\* engine.match_conditions(rule, event, engine.build_context())
MatchConditions ==
  \E rule \in PackageRules, event \in PackageEvents :
    /\ tests = <<>> /\ evaluated = <<>>
    /\ tests' = <<[rule |-> rule, event |-> event,
                   result |-> match_conditions(rule, event, data_cache)]>>
    /\ UNCHANGED <<data_cache, rule_cache, calls, evaluated, contexts, pool_vars>>

\* engine.evaluate_rule_over_events(rule, events), events being a list of
\* one event, or of one event and one of those that have no occurred_at
EvaluateRuleOverEvents ==
  \E rule \in PackageRules, first \in PackageEvents,
     second \in {e \in PackageEvents : "occurred_at" \notin DOMAIN e} :
    \E events \in {<<first>>, <<first, second>>} :
      /\ tests = <<>> /\ evaluated = <<>>
      /\ evaluated' = <<[rule |-> rule, events |-> events,
                         result |-> evaluate_rule_over_events(rule, events, data_cache)]>>
      /\ UNCHANGED <<data_cache, rule_cache, calls, contexts, tests, pool_vars>>

NextPackage == MatchConditions \/ EvaluateRuleOverEvents

SpecPackage == InitPackage /\ [][NextPackage]_vars

(***************************************************************************)
(* The properties.  They are stated over the logs: calls holds every call  *)
(* of evaluate_rule with what it returned, evaluated every single          *)
(* evaluation of an appointment.  A property of one call is stated of the  *)
(* last call of the log: every call is the last one in the state it leaves.*)
(***************************************************************************)

\* the call just made
LastCall == calls[Len(calls)]

\* the positions of the conditions of a parsed rule that test true on the
\* context of appointment i of a record store
ConditionsMet(data, rule_text, i) ==
  LET built == _build_context(data, data.appointments[i].id, current_time)
      conditions == ParsedRules[rule_text].conditions
  IN  IF ~built.ok THEN {}
      ELSE {q \in DOMAIN conditions :
              _evaluate_condition(conditions[q], built.context) = "true"}

SatisfiedConditions ==
  [data \in DataSets \cup PairDataSets, rule_text \in RuleTexts \cup {Rule.call} |->
     [i \in DOMAIN data.appointments |-> ConditionsMet(data, rule_text, i)]]

\* the appointments of a record store that match a rule: the rule parses and at
\* least one of its conditions tests true
Matching(data, rule_text) ==
  IF ~ParsedRules[rule_text].ok THEN {}
  ELSE LET met == SatisfiedConditions[data, rule_text]
       IN  {i \in DOMAIN met : met[i] # {}}

\* the sum of the weights (in tenths) of the conditions at the positions K
RECURSIVE WeightSum(_, _)
WeightSum(conditions, K) ==
  IF K = {} THEN 0
  ELSE LET q == CHOOSE r \in K : TRUE
       IN  conditions[q].confidence + WeightSum(conditions, K \ {q})

\* the patient of id patient_id has the do-not-contact flag set
HasDnc(data, patient_id) ==
  patient_id \in DOMAIN data.patients /\ data.patients[patient_id].dnc = TRUE

\* the appointment record a returned match is about
AppointmentOf(data, m) == data.appointments[ApptIndex(data, m.appointment_id)]

\* the matches held by a list of futures, in order
MatchesOf(futures) ==
  LET IsMatch(f) == f.kind = "match"
      found == SelectSeq(futures, IsMatch)
  IN  [i \in DOMAIN found |-> found[i].match]

\* confidence a <= confidence b, and a = b
ConfLeq(a, b) == a.num * b.den <= b.num * a.den

ConfEq(a, b) == a.num * b.den = b.num * a.den

\* a rule text has an "if" and, somewhere after it, a "then"
HasIfThen(rule_text) ==
  LET s == Lower(rule_text)
  IN  \E i, j \in 1..Len(s) :
        i < j /\ StartsAt(s, i, Lit.if) /\ StartsAt(s, j, Lit.then)

NoBoundaryTexts == {t \in DOMAIN ParsedRules : ~HasIfThen(t)}

\* C1: every RuleMatch that evaluate_rule returns for an appointment whose
\* patient has the do-not-contact flag set has an empty triggered_actions list.
C1_DncNoActions ==
  calls # <<>> =>
    \A k \in DOMAIN LastCall.returned :
      LET m == LastCall.returned[k]
      IN  HasDnc(LastCall.data, AppointmentOf(LastCall.data, m).patient_id)
            => m.triggered_actions = <<>>

\* a call of a rule with actions returned a match of a do-not-contact patient
\* next to a match of another patient for whom the actions were rendered
C1_DncMatchReturned ==
  \E i \in DOMAIN calls : \E k, l \in DOMAIN calls[i].returned :
    LET c == calls[i]
    IN  /\ ParsedRules[c.rule_text].actions # <<>>
        /\ HasDnc(c.data, AppointmentOf(c.data, c.returned[k]).patient_id)
        /\ c.returned[k].triggered_actions = <<>>
        /\ ~HasDnc(c.data, AppointmentOf(c.data, c.returned[l]).patient_id)
        /\ c.returned[l].triggered_actions # <<>>

\* C2: for a rule text without an "if ... then ..." boundary semantic_parse
\* returns None, and evaluate_rule returns the empty list, without raising and
\* without evaluating any appointment.
C2_NoBoundaryNoResult ==
  calls # <<>> =>
    LET c == LastCall
    IN  c.rule_text \in NoBoundaryTexts =>
          /\ ~ParsedRules[c.rule_text].ok
          /\ c.parsed /\ ~c.cache_hit
          /\ c.futures = <<>>
          /\ ~c.raised
          /\ c.returned = <<>>

\* a text without boundary was submitted to a record store holding a high-risk
\* appointment, which the words of the text name
C2_NoBoundaryCall ==
  \E i \in DOMAIN calls :
    /\ calls[i].rule_text \in NoBoundaryTexts
    /\ \E a \in DOMAIN calls[i].data.appointments :
         calls[i].data.appointments[a].no_show_risk = Lit.high

\* C3: the list evaluate_rule returns is the first limit entries of the stable
\* descending-confidence ordering of all the appointments that match the rule,
\* so that no matching appointment left out has a strictly higher confidence
\* than one that is returned.
C3_TopOfAllMatches ==
  \A i \in DOMAIN calls :
    LET c == calls[i]
        all == MatchesOf(c.futures)
    IN  (c.stored /\ ~c.raised) =>
          /\ c.returned = Take(SortDesc(all), c.limit)
          /\ \A a \in DOMAIN all : \A k \in DOMAIN c.returned :
               (\A l \in DOMAIN c.returned : c.returned[l].appointment_id # all[a].appointment_id)
                 => ConfLeq(all[a].confidence, c.returned[k].confidence)

\* C4: for limit >= 0 the returned list has at most limit entries, its
\* confidences are non-increasing, entries of equal confidence are in the
\* iteration order of the appointments, and it has exactly limit entries when
\* at least limit appointments match.
C4_TruncatedSorted ==
  calls # <<>> =>
    LET c == LastCall
    IN  (c.limit >= 0 /\ ~c.raised) =>
          /\ Len(c.returned) <= c.limit
          /\ \A k, l \in DOMAIN c.returned :
               k < l =>
                 /\ ConfLeq(c.returned[l].confidence, c.returned[k].confidence)
                 /\ ConfEq(c.returned[l].confidence, c.returned[k].confidence)
                      => ApptIndex(c.data, c.returned[k].appointment_id)
                           < ApptIndex(c.data, c.returned[l].appointment_id)
          /\ \/ Len(c.returned) = c.limit
             \/ Cardinality(Matching(c.data, c.rule_text)) < c.limit

\* a call with more matching appointments than its limit returned exactly
\* limit entries, two of them of equal confidence
C4_TruncatedWithTie ==
  \E i \in DOMAIN calls :
    LET c == calls[i]
    IN  /\ Cardinality(Matching(c.data, c.rule_text)) > c.limit
        /\ Len(c.returned) = c.limit
        /\ \E k, l \in DOMAIN c.returned :
             k < l /\ ConfEq(c.returned[k].confidence, c.returned[l].confidence)

C6_ZeroConditionsMatchAll ==
  \A i \in DOMAIN calls :
    LET c == calls[i]
        rule == ParsedRules[c.rule_text]
    IN  (rule.ok /\ rule.conditions = <<>> /\ ~c.raised) =>
          Len(c.returned) = MinOf({c.limit, Len(c.data.appointments)})

\* the positions of the conditions of its rule that test true on the
\* appointment of an entry of the log evaluated; none for an unknown id, for
\* which there is no context
MetBy(e) ==
  IF ApptIndex(data_cache, e.appt_id) = 0 THEN {}
  ELSE SatisfiedConditions[data_cache, e.rule_text][ApptIndex(data_cache, e.appt_id)]

\* C7: for a rule of n >= 1 conditions of which the set K, of k >= 1 elements,
\* tests true, the confidence of the RuleMatch of _evaluate_appointment is
\* (sum of the weights of K / n) * (k / n); when k = 0 the result is None.
C7_ConfidenceFormula ==
  \A i \in DOMAIN evaluated :
    LET e == evaluated[i]
        conditions == ParsedRules[e.rule_text].conditions
        n == Len(conditions)
        K == MetBy(e)
        k == Cardinality(K)
    IN  n >= 1 =>
          IF k = 0 THEN e.result.kind = "none"
          ELSE /\ e.result.kind = "match"
               /\ e.result.match.confidence.num * (10 * n * n)
                    = (WeightSum(conditions, K) * k) * e.result.match.confidence.den

\* a rule of two conditions was evaluated on an appointment that satisfies one
\* of them (a match) and on an appointment that satisfies none (None)
C7_PartialAndNone ==
  \E i, j \in DOMAIN evaluated :
    LET met(e) == MetBy(e)
    IN  /\ Len(ParsedRules[evaluated[i].rule_text].conditions) = 2
        /\ Cardinality(met(evaluated[i])) = 1
        /\ evaluated[i].result.kind = "match"
        /\ evaluated[j].rule_text = evaluated[i].rule_text
        /\ met(evaluated[j]) = {}
        /\ evaluated[j].result.kind = "none"

\* C8: for one rule and two contexts, when the conditions the first satisfies
\* are a subset of those the second satisfies, the confidence computed for the
\* first is at most the confidence computed for the second.
C8_MonotoneInCoverage ==
  \A i, j \in DOMAIN evaluated :
    LET met(e) == MetBy(e)
    IN  (/\ evaluated[i].rule_text = evaluated[j].rule_text
         /\ evaluated[i].result.kind = "match"
         /\ evaluated[j].result.kind = "match"
         /\ met(evaluated[i]) \subseteq met(evaluated[j]))
          => ConfLeq(evaluated[i].result.match.confidence,
                     evaluated[j].result.match.confidence)

\* one rule was evaluated on a context that satisfies only its heavier
\* condition and on a context that satisfies both of its conditions
C8_SubsetPair ==
  \E i, j \in DOMAIN evaluated :
    LET met(e) == MetBy(e)
        conditions == ParsedRules[evaluated[i].rule_text].conditions
    IN  /\ evaluated[i].rule_text = evaluated[j].rule_text
        /\ evaluated[i].result.kind = "match"
        /\ evaluated[j].result.kind = "match"
        /\ met(evaluated[i]) # met(evaluated[j])
        /\ met(evaluated[i]) \subseteq met(evaluated[j])
        /\ \E q \in met(evaluated[i]) : \A r \in DOMAIN conditions :
             conditions[r].confidence <= conditions[q].confidence

\* C9: with an unchanged dataset, two calls of evaluate_rule with the same
\* text and limit return identical ordered lists, whether the second is served
\* from the cache or recomputed.
C9_Idempotent ==
  \A i, j \in DOMAIN calls :
    (/\ i < j
     /\ calls[i].rule_text = calls[j].rule_text
     /\ calls[i].limit = calls[j].limit
     /\ calls[i].data = calls[j].data)
      => /\ calls[j].raised = calls[i].raised
         /\ calls[j].returned = calls[i].returned

\* a call was repeated at once and served from the cache, on a record store
\* with more matching appointments than the limit
C9_RepeatedCall ==
  \E i, j \in DOMAIN calls :
    /\ j = i + 1
    /\ calls[i].rule_text = calls[j].rule_text
    /\ calls[i].limit = calls[j].limit
    /\ calls[i].data = calls[j].data
    /\ calls[j].cache_hit
    /\ calls[j].returned # <<>>
    /\ Cardinality(Matching(calls[j].data, calls[j].rule_text)) > calls[j].limit

\* C10: once a call has stored its result in rule_cache, every later call with
\* the same text and the same limit returns the stored list without parsing
\* or evaluating, even when the record store was reloaded in between; and a
\* call is served from the cache only by an entry that a call with the same
\* text and the same limit stored.
C10_CacheServesSameCall ==
  /\ \A i, j \in DOMAIN calls :
       (/\ i < j
        /\ calls[i].stored
        /\ calls[i].rule_text = calls[j].rule_text
        /\ calls[i].limit = calls[j].limit)
         => /\ calls[j].cache_hit
            /\ ~calls[j].parsed
            /\ calls[j].futures = <<>>
            /\ ~calls[j].stored
            /\ calls[j].returned = calls[i].returned
  /\ \A j \in DOMAIN calls :
       calls[j].cache_hit =>
         \E i \in DOMAIN calls :
           /\ i < j
           /\ calls[i].stored
           /\ calls[i].rule_text = calls[j].rule_text
           /\ calls[i].limit = calls[j].limit
           /\ calls[j].returned = calls[i].returned

\* a call stored a non-empty list, the record store was reloaded with other
\* data, and the same call was then served the stored list
C10_HitAfterReload ==
  \E i, j \in DOMAIN calls :
    /\ i < j
    /\ calls[i].stored
    /\ calls[i].returned # <<>>
    /\ calls[j].cache_hit
    /\ calls[j].rule_text = calls[i].rule_text
    /\ calls[j].limit = calls[i].limit
    /\ calls[j].data # calls[i].data
    /\ calls[j].returned = calls[i].returned

\* the parsed rule of a call that parsed its text: what semantic_parse returned
ParsedOf(c) == ParsedRules[c.rule_text]

\* C11: a parser never returns a structured rule whose action list is empty:
\* every rule that semantic_parse returns to evaluate_rule has at least one
\* action.
C11_ActionsNeverEmpty ==
  calls # <<>> =>
    (LastCall.parsed /\ ParsedOf(LastCall).ok => ParsedOf(LastCall).actions # <<>>)

\* the payloads of type t among the triggered actions of the matches a call
\* returned, match by match
PayloadsOf(c, t) ==
  {p \in UNION {{c.returned[k].triggered_actions[j] :
                   j \in DOMAIN c.returned[k].triggered_actions} :
                k \in DOMAIN c.returned} : p.type = t}

\* C12: for the rule "If patient speaks spanish then send SMS" the SMS action
\* of the parsed rule carries the canned Spanish-tone SMS template, and every
\* SMS that evaluate_rule renders for it is the Spanish text.
C12_SpanishTemplate ==
  calls # <<>> /\ LastCall.rule_text = Rule.spanish /\ ~LastCall.raised =>
    /\ \A k \in DOMAIN ParsedOf(LastCall).actions :
         ParsedOf(LastCall).actions[k].type = "SMS"
           => ParsedOf(LastCall).actions[k].template = base_templates["SMS"]["spanish"]
    /\ \A p \in PayloadsOf(LastCall, "SMS") : StartsAt(p.message, 1, <<"H","o","l","a">>)

\* the quoted message of a rule text, as written: the text between the quotes
\* after "saying "
WrittenMessage(rule_text) == quoted_after_search(rule_text, Lit.saying).group

\* C13: for a rule whose then-clause has a quoted custom message, the message
\* of every SMS that evaluate_rule renders equals the quoted text as it is
\* written in the rule text, letter case included.
C13_CustomMessageLiteral ==
  calls # <<>> /\ LastCall.rule_text = Rule.custom /\ ~LastCall.raised =>
    \A p \in PayloadsOf(LastCall, "SMS") : p.message = WrittenMessage(Rule.custom)

\* the record store has no intake record for the appointment
NoIntake(appt_id) == appt_id \notin DOMAIN data_cache.intakes

\* a test of the condition intake_status equals status
IntakeTest(t, status) ==
  /\ t.condition.field = "intake_status"
  /\ t.condition.operator = "equals"
  /\ t.condition.value = PyStr(status)

\* C14: for every appointment that has no intake record the context built by
\* _build_context has intake_status INCOMPLETE; on it the condition
\* intake_status equals INCOMPLETE tests true and intake_status equals
\* COMPLETE tests false.
C14_IntakeDefault ==
  /\ \A k \in DOMAIN contexts :
       contexts[k].built.ok /\ NoIntake(contexts[k].appt_id)
         => contexts[k].built.context.intake_status = PyStr(Lit.INCOMPLETE)
  /\ \A k \in DOMAIN tests :
       NoIntake(tests[k].appt_id) =>
         /\ IntakeTest(tests[k], Lit.INCOMPLETE) => tests[k].result = "true"
         /\ IntakeTest(tests[k], Lit.COMPLETE) => tests[k].result = "false"

\* the context of an appointment without intake record was built, and both
\* intake conditions were tested on it
C14_BothTested ==
  \E i, j \in DOMAIN tests :
    /\ tests[i].appt_id = tests[j].appt_id
    /\ NoIntake(tests[i].appt_id)
    /\ IntakeTest(tests[i], Lit.INCOMPLETE) /\ tests[i].result = "true"
    /\ IntakeTest(tests[j], Lit.COMPLETE) /\ tests[j].result = "false"

\* appointment i of the record store of call c has a patient and a practice
\* that resolve, the patient not being do-not-contact
Contactable(c, i) ==
  LET appt == c.data.appointments[i]
  IN  /\ {"patient_id", "practice_id"} \subseteq DOMAIN appt
      /\ appt.patient_id \in DOMAIN c.data.patients
      /\ appt.practice_id \in DOMAIN c.data.practices
      /\ ~c.data.patients[appt.patient_id].dnc

\* C15: for the rule "If high risk then call patient", an appointment of
\* no_show_risk "high" whose patient is not do-not-contact yields a RuleMatch
\* with exactly one payload: a CALL to the patient's phone whose script
\* contains the patient's first name and the practice name.
C15_HighRiskCall ==
  calls # <<>> /\ LastCall.rule_text = Rule.high_call =>
    \A i \in DOMAIN LastCall.futures :
      LET appt == LastCall.data.appointments[i]
          actions == LastCall.futures[i].match.triggered_actions
      IN  Contactable(LastCall, i) /\ appt.no_show_risk = Lit.high =>
            /\ LastCall.futures[i].kind = "match"
            /\ Len(actions) = 1
            /\ actions[1].type = "CALL"
            /\ actions[1].to = PyStr(LastCall.data.patients[appt.patient_id].phone)
            /\ Contains(actions[1].script,
                        LastCall.data.patients[appt.patient_id].first_name)
            /\ Contains(actions[1].script,
                        LastCall.data.practices[appt.practice_id].name)

\* the rule was evaluated on a high-risk appointment of a patient who is not
\* do-not-contact, next to one of a do-not-contact patient that got no payload
C15_CallRendered ==
  \E k \in DOMAIN calls : \E i, j \in DOMAIN calls[k].futures :
    /\ calls[k].rule_text = Rule.high_call
    /\ Contactable(calls[k], i)
    /\ calls[k].data.appointments[i].no_show_risk = Lit.high
    /\ calls[k].futures[i].kind = "match"
    /\ calls[k].futures[i].match.triggered_actions # <<>>
    /\ calls[k].futures[j].kind = "match"
    /\ calls[k].futures[j].match.triggered_actions = <<>>

\* The timestamps of the record stores and the reference timestamps that are
\* ISO timestamps, each with the hour it denotes, counted from
\* 2025-09-09T00:00, and whether it carries a UTC offset (a reference
\* timestamp loses its Z before it is parsed).  "tomorrow" and "now" are not
\* timestamps.
Instants ==
    (<<"2","0","2","5","-","0","9","-","1","0","T","1","2",":","0","0",":","0","0","Z">> :>
          [hour |-> 36, aware |-> FALSE])
    @@ (<<"2","0","2","5","-","0","9","-","1","0","T","1","2",":","0","0",":","0","0","+","0","0",":","0","0">> :>
          [hour |-> 36, aware |-> TRUE])
    @@ (<<"2","0","2","5","-","0","9","-","1","0","T","1","8",":","0","0",":","0","0">> :>
          [hour |-> 42, aware |-> FALSE])
    @@ (<<"2","0","2","5","-","0","9","-","1","1","T","1","2",":","0","0",":","0","0">> :>
          [hour |-> 60, aware |-> FALSE])
    @@ (<<"2","0","2","5","-","0","9","-","0","9","T","0","9",":","0","0",":","0","0">> :>
          [hour |-> 9, aware |-> FALSE])
    @@ (<<"2","0","2","5","-","0","9","-","1","0","T","1","8",":","0","0",":","0","0","+","0","0",":","0","0">> :>
          [hour |-> 42, aware |-> TRUE])
    @@ (<<"2","0","2","5","-","0","9","-","1","2">> :>
          [hour |-> 72, aware |-> FALSE])
    @@ (<<"2","0","2","5","-","0","9","-","1","0","T","1","2",":","0","0",":","0","0">> :>
          [hour |-> 36, aware |-> FALSE])

\* hours_until as the claim gives it for a start time and a reference timestamp
ExpectedHours(start_time, now) ==
  IF /\ start_time \in DOMAIN Instants /\ now \in DOMAIN Instants
     /\ Instants[start_time].aware = Instants[now].aware
    THEN IF Instants[start_time].hour > Instants[now].hour
           THEN Instants[start_time].hour - Instants[now].hour
           ELSE 0
    ELSE 24

\* the appointment record of an entry of the log of contexts
RecordOf(e) == data_cache.appointments[ApptIndex(data_cache, e.appt_id)]

\* the start time of the record of an entry, "" for a record without one
StartOf(e) == DictGet(RecordOf(e), "start_time", <<>>)

\* C16: hours_until of every built context is not negative; it is max(0, hours
\* from the reference timestamp to the start time) when both parse and can be
\* subtracted, and 24 otherwise; and _build_context does not raise for a
\* record that has its patient_id and practice_id, whatever its start time.
C16_HoursUntilClamped ==
  \A k \in DOMAIN contexts :
    LET e == contexts[k]
    IN  e.appt_id # UnknownId =>
          /\ {"patient_id", "practice_id"} \subseteq DOMAIN RecordOf(e)
               => e.built.ok /\ ~e.built.raised
          /\ e.built.ok =>
               /\ e.built.context.hours_until.k \in {"int", "float"}
               /\ e.built.context.hours_until.n >= 0
               /\ e.built.context.hours_until.n =
                    e.built.context.hours_until.d
                      * ExpectedHours(StartOf(e), e.now)

\* contexts were built for a past appointment (clamped to 0), for a start time
\* and a reference of which one only has a UTC offset (24), and for an
\* appointment that lies ahead
C16_ClampedFallbackAhead ==
  \E i, j, k \in DOMAIN contexts :
    /\ contexts[i].built.ok /\ contexts[j].built.ok /\ contexts[k].built.ok
    /\ contexts[i].now \in DOMAIN Instants
    /\ StartOf(contexts[i]) \in DOMAIN Instants
    /\ Instants[StartOf(contexts[i])].hour < Instants[contexts[i].now].hour
    /\ contexts[i].built.context.hours_until = PyNum(0)
    /\ contexts[j].now \in DOMAIN Instants
    /\ StartOf(contexts[j]) \in DOMAIN Instants
    /\ Instants[StartOf(contexts[j])].aware # Instants[contexts[j].now].aware
    /\ contexts[j].built.context.hours_until = PyNum(24)
    /\ contexts[k].built.context.hours_until.k = "float"
    /\ contexts[k].built.context.hours_until.n > 0

\* the field of the condition of a test is absent from its context
FieldAbsent(t) == t.condition.field \notin DOMAIN t.context

\* the test compares numerically a context value that is not a number
NonNumericCompared(t) ==
  /\ t.condition.operator \in {"<=", ">="}
  /\ ~FieldAbsent(t)
  /\ t.context[t.condition.field].k \notin {"int", "float", "bool"}

NamesUnknownField(template) ==
  \E b, e \in DOMAIN template :
    /\ b < e /\ template[b] = "{" /\ template[e] = "}"
    /\ \A j \in (b + 1)..(e - 1) : template[j] \notin {"{", "}"}
    /\ SubSeq(template, b + 1, e - 1) \notin {ContextKeys[key] : key \in DOMAIN ContextKeys}

\* the actions of a parsed rule whose templates name known fields only
Substitutable(actions) ==
  LET Known(a) == ~NamesUnknownField(a.template) /\ ~NamesUnknownField(a.template_subject)
  IN  SelectSeq(actions, Known)

\* by rule text
KeptActions ==
  [rule_text \in DOMAIN ParsedRules |-> Substitutable(ParsedRules[rule_text].actions)]

\* C18: when an action's template names a field that is not in the context,
\* _generate_actions omits exactly that action: the payloads of a match are
\* those of the other actions of the rule, in their order, and the evaluation
\* of the appointment does not raise.
C18_OnlyFailedActionDropped ==
  calls # <<>> =>
    \A i \in DOMAIN LastCall.futures :
      LET appt == LastCall.data.appointments[i]
          payloads == LastCall.futures[i].match.triggered_actions
          kept == KeptActions[LastCall.rule_text]
      IN  /\ {"patient_id", "practice_id"} \subseteq DOMAIN appt
               => LastCall.futures[i].kind # "raise"
          /\ LastCall.futures[i].kind = "match" /\ ~HasDnc(LastCall.data, appt.patient_id)
               => /\ Len(payloads) = Len(kept)
                  /\ \A j \in DOMAIN kept : payloads[j].type = kept[j].type

\* a rule of three actions, the first naming an unknown field, was evaluated on
\* an appointment that matched: the two other actions were rendered, in order
C18_FirstOfThreeDropped ==
  \E k \in DOMAIN calls : \E i \in DOMAIN calls[k].futures :
    /\ Len(ParsedOf(calls[k]).actions) = 3
    /\ NamesUnknownField(ParsedOf(calls[k]).actions[1].template)
    /\ calls[k].futures[i].kind = "match"
    /\ Len(calls[k].futures[i].match.triggered_actions) = 2
    /\ calls[k].futures[i].match.triggered_actions[1].type = "EMAIL"
    /\ calls[k].futures[i].match.triggered_actions[2].type = "CALL"

\* C19: evaluate_rule does not abort on one bad record: the call does not
\* raise, and every match found among the appointments is returned (the
\* scenarios ask for as many matches as the record store has appointments).
C19_BadRecordTolerated ==
  calls # <<>> =>
    /\ ~LastCall.raised
    /\ \A i \in DOMAIN LastCall.futures :
         LastCall.futures[i].kind = "match"
           => \E k \in DOMAIN LastCall.returned :
                LastCall.returned[k] = LastCall.futures[i].match

\* the appointment record of an entry of the log evaluated
EvaluatedRecord(e) == data_cache.appointments[ApptIndex(data_cache, e.appt_id)]

\* the fields of a context that come from the patient record, and from the
\* practice record
PatientStrings ==
  {"patient_first_name", "patient_last_name", "patient_phone", "patient_email",
   "patient_language"}

PatientFlags == {"patient_dnc", "patient_comm_sms", "patient_comm_email", "patient_comm_call"}

PracticeStrings ==
  {"practice_name", "practice_timezone", "practice_phone", "practice_email",
   "practice_domain"}

\* every condition of the rule is on a field of the appointment record, and one
\* of them is no_show_risk equals risk
OnAppointmentOnly(rule_text, risk) ==
  LET conditions == ParsedRules[rule_text].conditions
  IN  /\ \A q \in DOMAIN conditions :
           conditions[q].field \in {"no_show_risk", "appointment_type", "hours_until"}
      /\ \E q \in DOMAIN conditions :
           /\ conditions[q].field = "no_show_risk"
           /\ conditions[q].operator = "equals"
           /\ conditions[q].value = PyStr(risk)

C21_WhenAsIf ==
  calls # <<>> =>
    (LastCall.rule_text = Rule.when_call /\ ~LastCall.cache_hit =>
       /\ ParsedOf(LastCall).ok
       /\ ParsedOf(LastCall).conditions = ParsedRules[Rule.high_call].conditions
       /\ ParsedOf(LastCall).actions = ParsedRules[Rule.high_call].actions)

\* a step of a worker: the state of a submitted task changes
WorkerStep == Len(tasks') = Len(tasks) /\ tasks' # tasks

\* C22: the steps of evaluate_rule are ordered.  A task is submitted only
\* after semantic_parse has returned the rule of the call; rule_cache is
\* written in one step only, the one in which the call returns, and only
\* when every appointment's task was submitted and is done; a step of a
\* worker changes its own future and nothing else: not rule_cache, not the
\* record store, not the parsed rule, not the orchestrator's state.
C22_ParseSubmitStore ==
  [][/\ Len(tasks') > Len(tasks) =>
          /\ shared_rule.ok
          /\ shared_rule = ParsedRules[request.rule_text]
     /\ rule_cache' # rule_cache =>
          /\ pc = "exit" /\ pc' = "idle"
          /\ Len(calls') = Len(calls) + 1
          /\ Len(tasks) = Len(data_cache.appointments)
          /\ \A i \in DOMAIN tasks : tasks[i].state = "done"
     /\ WorkerStep =>
          /\ UNCHANGED <<data_cache, rule_cache, calls, shared_rule, request, gathered, pc>>
          /\ \E i \in DOMAIN tasks : \A j \in DOMAIN tasks \ {i} : tasks'[j] = tasks[j]
    ]_vars

\* a call has stored its result, and the next call, whose loop over the
\* futures broke at the cut-off, waits at the end of the with block for a
\* task that is still running and one that no worker has taken yet
C22_WaitsForWorkers ==
  /\ calls # <<>> /\ calls[Len(calls)].stored
  /\ pc = "exit"
  /\ Len(gathered.matches) >= request.limit * 2
  /\ \E i, j \in DOMAIN tasks : tasks[i].state = "running" /\ tasks[j].state = "queued"

\* what a call that went to the workers returns when the appointments are
\* evaluated one after the other in the order of the record store
InOrder(c) ==
  LET got == collect(PoolFutures[c.data, c.rule_text], 1, <<>>, c.limit)
  IN  [raised |-> got.raised,
       returned |-> IF got.raised THEN <<>> ELSE Take(SortDesc(got.matches), c.limit)]

\* C23: whatever the order in which the workers take and finish their tasks,
\* a call of evaluate_rule that is no cache hit returns the list that the
\* evaluation of the appointments in the order of the record store gives for
\* its dataset, rule text and limit, cut-off included, and raises if and only
\* if that evaluation does.
C23_InterleavingFree ==
  calls # <<>> =>
    (LastCall.parsed /\ ParsedOf(LastCall).ok =>
       /\ LastCall.raised = InOrder(LastCall).raised
       /\ LastCall.returned = InOrder(LastCall).returned)

\* a call whose loop over the futures stopped at the cut-off, leaving a later
\* match out, has returned; in the next call the loop waits for the first
\* future, whose task is still running, while a worker that started later
\* has already finished with a match
C23_LaterWorkerFirst ==
  /\ calls # <<>>
  /\ LastCall.returned # <<>>
  /\ Cardinality({i \in DOMAIN LastCall.futures : LastCall.futures[i].kind = "match"})
       > LastCall.limit * 2
  /\ pc = "collect" /\ gathered.next = 1
  /\ tasks[1].state = "running"
  /\ \E i \in DOMAIN tasks : tasks[i].state = "done" /\ tasks[i].result.kind = "match"

\* C24: an action with a canned template (no custom message) is rendered
\* for every context that is not do-not-contact: every match of a patient
\* who is not do-not-contact carries one payload for each action of the
\* rule that has no custom message.
C24_CannedAlwaysRendered ==
  calls # <<>> =>
    \A i \in DOMAIN LastCall.futures :
      LET canned == {j \in DOMAIN ParsedOf(LastCall).actions :
                       ParsedOf(LastCall).actions[j].custom_message = PyNone}
      IN  LastCall.futures[i].kind = "match"
            /\ canned = DOMAIN ParsedOf(LastCall).actions
            /\ DictGet(LastCall.data.appointments[i], "patient_id", <<>>)
                 \in DOMAIN LastCall.data.patients
            /\ ~HasDnc(LastCall.data, LastCall.data.appointments[i].patient_id)
            => Len(LastCall.futures[i].match.triggered_actions) = Cardinality(canned)

\* a date-time in the extended ISO format, with or without Z or UTC offset
IsoDateTime(s) == s \in DOMAIN Instants /\ Len(s) >= 19

\* C25: for two well-formed ISO date-times that can be subtracted,
\* simple_datetime_diff(current, start) is max(0, hours from current to
\* start); it is not the fallback 24 unless that is the difference.
C25_DiffOfWellFormed ==
  tests # <<>> =>
    LET t == tests[Len(tests)]
    IN  /\ IsoDateTime(t.current_str) /\ IsoDateTime(t.appt_str)
        /\ Instants[t.current_str].aware = Instants[t.appt_str].aware
        => t.hours.n = t.hours.d * ExpectedHours(t.appt_str, t.current_str)

\* the call of match_conditions that was made
TheTest == tests[1]

\* the condition keys of the rule of the call, "logic" apart, and those that
\* test true on its event
KeysOf(t) == DOMAIN DictGet(t.rule, "conditions", <<>>) \ {"logic"}

TrueKeys(t) ==
  {k \in KeysOf(t) :
     test(k, t.rule.conditions[k], t.event, resolved(t.event, data_cache), data_cache)
       = "true"}

\* the logic the rule of the call gives, in upper case; <<>> when it gives none
GivenLogic(t) ==
  LET conds == DictGet(t.rule, "conditions", <<>>)
  IN  IF "logic" \in DOMAIN conds
        THEN [i \in DOMAIN conds.logic.s |-> UpperChar(conds.logic.s[i])]
        ELSE <<>>

\* C26: a call of match_conditions that returns gives true under ALL, and
\* under no logic given, iff every condition key other than "logic" tests
\* true on the event, and under ANY iff at least one does; so a rule with no
\* condition key matches every event under ALL and none under ANY.
C26_LogicCombinator ==
  tests # <<>> /\ TheTest.result # "raise" =>
    /\ GivenLogic(TheTest) \in {<<>>, <<"A","L","L">>} =>
         (TheTest.result = "true" <=> TrueKeys(TheTest) = KeysOf(TheTest))
    /\ GivenLogic(TheTest) = <<"A","N","Y">> =>
         (TheTest.result = "true" <=> TrueKeys(TheTest) # {})
    /\ KeysOf(TheTest) = {} =>
         (TheTest.result = "true" <=> GivenLogic(TheTest) # <<"A","N","Y">>)

\* a rule that gives no logic and two condition keys was tested on an event
\* on which one key tests true and the other does not: no match
C26_DefaultAllOneKeyFails ==
  /\ tests # <<>>
  /\ GivenLogic(TheTest) = <<>>
  /\ Cardinality(KeysOf(TheTest)) = 2
  /\ Cardinality(TrueKeys(TheTest)) = 1
  /\ TheTest.result = "false"

\* C27: no step of evaluate_rule, of the orchestrator or of a worker,
\* changes the record store; from the parse to the return the parsed rule
\* stays what semantic_parse returned; and rule_cache only grows, by at most
\* one entry per call, under the key of the call: an entry that is present
\* is neither replaced nor removed.
C27_FrameOfEvaluateRule ==
  [][/\ data_cache' = data_cache
     /\ pc \in {"submit", "collect", "exit"} =>
          /\ shared_rule = ParsedRules[request.rule_text]
          /\ pc' # "idle" => shared_rule' = shared_rule
     /\ \A key \in DOMAIN rule_cache :
          key \in DOMAIN rule_cache' /\ rule_cache'[key] = rule_cache[key]
     /\ DOMAIN rule_cache' \ DOMAIN rule_cache
          \subseteq {cache_key(request.rule_text, request.limit)}
    ]_vars

\* two calls went to the workers and each stored its entry: the second one
\* was added next to the first
C27_SecondEntryAdded ==
  /\ Len(calls) = 2
  /\ calls[1].stored /\ calls[2].stored
  /\ Cardinality(DOMAIN rule_cache) = 2
  /\ calls[1].returned # <<>>
  /\ rule_cache[cache_key(calls[1].rule_text, calls[1].limit)] = calls[1].returned

\* the call of evaluate_rule_over_events just made
TheRun == evaluated[1]

\* the patients of the record store flagged do-not-contact
DncPatients == {id \in DOMAIN data_cache.patients : data_cache.patients[id].dnc}

\* the id of the patient an event is about: the patient of the appointment
\* its payload names, else the patient its payload names
PatientOf(event) ==
  LET payload == IF "payload" \in DOMAIN event THEN event.payload ELSE <<>>
      about == IF "appointment_id" \in DOMAIN payload
                 THEN {i \in DOMAIN data_cache.appointments :
                         data_cache.appointments[i].id = payload.appointment_id}
                 ELSE {}
  IN  IF about # {}
        THEN data_cache.appointments[CHOOSE i \in about : TRUE].patient_id
        ELSE IF "patient_id" \in DOMAIN payload THEN payload.patient_id ELSE <<>>

Triggered == {"Triggered SMS", "Triggered Email", "Triggered Call"}

\* C28: a call of evaluate_rule_over_events that returns has no triggered
\* SMS, e-mail or call line addressed to the phone or the e-mail of a patient
\* flagged do-not-contact; and for one event about a do-not-contact patient
\* it returns no triggered line at all: the single line SKIPPED (DNC) for
\* that patient if the event matches, nothing if it does not, whatever the
\* actions of the rule.
C28_NoMessageToDnc ==
  (evaluated # <<>> /\ ~TheRun.result.raised) =>
    LET logs == TheRun.result.logs
    IN  /\ \A i \in DOMAIN logs :
             logs[i].kind \in Triggered =>
               \A id \in DncPatients :
                 logs[i].to \notin {data_cache.patients[id].phone,
                                    data_cache.patients[id].email}
        /\ (Len(TheRun.events) = 1 /\ PatientOf(TheRun.events[1]) \in DncPatients) =>
             \/ logs = <<>>
             \/ logs = << [kind |-> "SKIPPED (DNC)", to |-> PatientOf(TheRun.events[1]),
                           text |-> <<>>] >>

\* a rule with two actions ran over an event about a patient who can be
\* contacted and an event about a do-not-contact patient: two triggered
\* lines for the first, the one SKIPPED line for the second
C28_SkippedNextToTriggered ==
  /\ evaluated # <<>> /\ ~TheRun.result.raised
  /\ Len(TheRun.events) = 2
  /\ PatientOf(TheRun.events[1]) \in DOMAIN data_cache.patients \ DncPatients
  /\ PatientOf(TheRun.events[2]) \in DncPatients
  /\ Len(TheRun.rule.actions) = 2
  /\ Len(TheRun.result.logs) = 3
  /\ TheRun.result.logs[1].kind = "Triggered SMS"
  /\ TheRun.result.logs[3].kind = "SKIPPED (DNC)"

\* the if-clause of a rule text names a language: it has the word spanish or
\* english, or the code es or en as a word of its own
NamesLanguage(rule_text) ==
  LET clause == <<" ">> \o if_then_search(Lower(Strip(rule_text))).group1 \o <<" ">>
  IN  \/ Contains(clause, Lit.spanish) \/ Contains(clause, Lit.english)
      \/ Contains(clause, <<" ">> \o Lit.es \o <<" ">>)
      \/ Contains(clause, <<" ">> \o Lit.en \o <<" ">>)

\* C29: a rule whose if-clause names no language is parsed without a
\* patient_language condition, and every appointment it matches meets one of
\* its other conditions.
C29_LanguageOnlyWhenNamed ==
  \A k \in DOMAIN calls :
    LET conditions == ParsedRules[calls[k].rule_text].conditions
        others == {q \in DOMAIN conditions : conditions[q].field # "patient_language"}
    IN  ~NamesLanguage(calls[k].rule_text) =>
          /\ others = DOMAIN conditions
          /\ \A i \in DOMAIN calls[k].futures :
               calls[k].futures[i].kind = "match" =>
                 ConditionsMet(calls[k].data, calls[k].rule_text, i) \cap others # {}

\* the appointment records an event is about: those of the id its payload names
AppointmentsOf(event) ==
  LET payload == IF "payload" \in DOMAIN event THEN event.payload ELSE <<>>
  IN  IF "appointment_id" \in DOMAIN payload
        THEN {data_cache.appointments[i] : i \in
                {j \in DOMAIN data_cache.appointments :
                   data_cache.appointments[j].id = payload.appointment_id}}
        ELSE {}

\* a timestamp of the package engine carries an offset: Z stands for +00:00
CarriesOffset(s) == Instants[s].aware \/ s[Len(s)] = "Z"

\* the hours from the event to the start of the appointment are defined and
\* between 0 and N
WithinHours(event, appt, N) ==
  /\ "occurred_at" \in DOMAIN event /\ "start_time" \in DOMAIN appt
  /\ event.occurred_at.s \in DOMAIN Instants /\ appt.start_time \in DOMAIN Instants
  /\ CarriesOffset(event.occurred_at.s) = CarriesOffset(appt.start_time)
  /\ 0 <= Instants[appt.start_time].hour - Instants[event.occurred_at.s].hour
  /\ Instants[appt.start_time].hour - Instants[event.occurred_at.s].hour <= N

\* C30: match_conditions on a rule whose one condition is
\* appointment_hours_until: N, for an event whose entities resolve, does not
\* raise, and is true exactly when the event is about an appointment, the
\* event's occurred_at and the appointment's start_time both parse, and the
\* hours between them are between 0 and N; a rule with a non-numeric N does
\* not raise either.
C30_HoursUntilWithinTarget ==
  (/\ tests # <<>>
   /\ "appointment_hours_until" \in KeysOf(TheTest)
   /\ \A appt \in AppointmentsOf(TheTest.event) :
        {"patient_id", "practice_id"} \subseteq DOMAIN appt) =>
    /\ TheTest.result # "raise"
    /\ KeysOf(TheTest) = {"appointment_hours_until"} =>
         (TheTest.result = "true" <=>
            \E appt \in AppointmentsOf(TheTest.event) :
              WithinHours(TheTest.event, appt,
                          TheTest.rule.conditions["appointment_hours_until"].n))

====
